---- MODULE Spec2Model ----
(***************************************************************************)
(* State-machine model of the dark-matter detector simulation:             *)
(*   src/src/detector.py   Detector (generation, process_event,            *)
(*                         run_simulation, histograms)                     *)
(*   src/src/particle.py   EventCollection (add_event, statistics,         *)
(*                         histograms)                                     *)
(*   src/api/app.py        Flask handlers over simulation_state            *)
(*   src/api/routes.py     blueprint handlers over simulation_history      *)
(*   src/src/physics.py    the module-level physics functions              *)
(*                                                                         *)
(* Units.  Floats are carried as scaled integers:                          *)
(*   energies            centi-keV      (3.0 keV  = 300)                   *)
(*   energies of the Detector's particles and events, and what is taken    *)
(*   of them             1e-4 keV       (3.0 keV  = 30000)                 *)
(*   mass_kg             centi-kg       (1.0 kg   = 100)                   *)
(*   energy_resolution   percent        (0.03     = 3)                     *)
(*   background rate     1e-4 /kg/day   (0.01     = 100)                   *)
(*   temperature         mK, exposure   days, timestamps seconds           *)
(*   probabilities       percent                                           *)
(*                                                                         *)
(* Randomness.  The code draws every random number from the process-wide   *)
(* numpy generator (module np.random).  The generator is the state      *)
(* variable rng; every call advances it once and reads its value from the *)
(* new state.  The generator is unseeded (config.RANDOM_SEED = None), so   *)
(* Init draws its state from a set of seeds.                               *)
(***************************************************************************)
EXTENDS Integers, Sequences, FiniteSets, TLC

VARIABLES
    rng,        \* state of the global np.random generator
    det,        \* the Detector object (detector.py)
    ret,        \* what the last call returned (or that it raised)
    drawn,      \* number of particle draws requested from the generator so far
    coll,       \* the events of an EventCollection (particle.py)
    simulation_state,   \* app.py: the dict with 'current_sim' and 'history'
    simulation_history, \* routes.py: the list of stored simulations
    phys,       \* physics.py: the call in progress and the calls made so far
    runs        \* the runs that threads of the process are executing

(***************************************************************************)
(* Bounds of the model                                                     *)
(***************************************************************************)
NumSeeds == 3
MaxDraws == 2
MaxEvents == 2
MaxStream == 2
MaxColl == 2
MaxHistory == 2
MaxCount == 6
MaxCalls == 2
MaxPauses == 1

(***************************************************************************)
(* Small arithmetic helpers                                                *)
(***************************************************************************)
Min2(a, b) == IF a <= b THEN a ELSE b
Max2(a, b) == IF a >= b THEN a ELSE b

RECURSIVE Gcd(_, _)
Gcd(a, b) == IF b = 0 THEN a ELSE Gcd(b, a % b)

RECURSIVE SumSeq(_)
SumSeq(s) == IF s = <<>> THEN 0 ELSE Head(s) + SumSeq(Tail(s))

RangeOf(s) == {s[i] : i \in 1..Len(s)}

\* max(s) and min(s) of a non-empty sequence
MaxSeq(s) == CHOOSE v \in RangeOf(s) : \A w \in RangeOf(s) : v >= w
MinSeq(s) == CHOOSE v \in RangeOf(s) : \A w \in RangeOf(s) : v <= w

\* the positions of a sequence
Indices(s) == 1..Len(s)

(***************************************************************************)
(* Python float arithmetic (IEEE 754 binary64, round to nearest, ties to   *)
(* even), as far as the code's int(...), round(...) and np.histogram calls *)
(* need it.  A natural number of any size is a sequence of digits in base  *)
(* 2^15, lowest first and without leading zeros; a float is                *)
(* sign * m * 2^e with m such a number of at most 53 bits.  An operator    *)
(* that uses an argument more than once binds it first (x \in {a}), so     *)
(* that it is computed once.                                               *)
(***************************************************************************)
Base == 2^15

RECURSIVE NatOf(_)
NatOf(n) == IF n = 0 THEN <<>> ELSE <<n % Base>> \o NatOf(n \div Base)

RECURSIVE NatValue(_)
NatValue(a) == IF a = <<>> THEN 0 ELSE a[1] + Base * NatValue(Tail(a))

RECURSIVE NatTrim(_)
NatTrim(a) ==
    IF a = <<>> THEN a
    ELSE IF a[Len(a)] = 0 THEN NatTrim(SubSeq(a, 1, Len(a) - 1))
    ELSE a

DigitAt(a, i) == IF i >= 1 /\ i <= Len(a) THEN a[i] ELSE 0

RECURSIVE NatAddFrom(_, _, _, _)
NatAddFrom(a, b, i, carry) ==
    IF i > Len(a) /\ i > Len(b) THEN (IF carry = 0 THEN <<>> ELSE <<carry>>)
    ELSE CHOOSE sum \in {<<s % Base>> \o NatAddFrom(a, b, i + 1, s \div Base) :
                            s \in {DigitAt(a, i) + DigitAt(b, i) + carry}} : TRUE

NatAdd(a, b) ==
    CHOOSE sum \in {NatAddFrom(x, y, 1, 0) : x \in {a}, y \in {b}} : TRUE

\* a - b for a >= b
RECURSIVE NatSubFrom(_, _, _, _)
NatSubFrom(a, b, i, borrow) ==
    IF i > Len(a) THEN <<>>
    ELSE CHOOSE diff \in
             {<<d % Base>> \o NatSubFrom(a, b, i + 1, IF d < 0 THEN 1 ELSE 0) :
                 d \in {DigitAt(a, i) - DigitAt(b, i) - borrow}} : TRUE

NatSub(a, b) ==
    CHOOSE diff \in {NatTrim(d) : d \in {NatSubFrom(x, y, 1, 0) :
                                          x \in {a}, y \in {b}}} : TRUE

\* -1, 0, 1 as a < b, a = b, a > b; i is the digit looked at
RECURSIVE NatCompareAt(_, _, _)
NatCompareAt(a, b, i) ==
    IF i = 0 THEN 0
    ELSE IF DigitAt(a, i) > DigitAt(b, i) THEN 1
    ELSE IF DigitAt(a, i) < DigitAt(b, i) THEN -1
    ELSE NatCompareAt(a, b, i - 1)

NatCompare(a, b) ==
    CHOOSE c \in {NatCompareAt(x, y, IF Len(x) > Len(y) THEN Len(x) ELSE Len(y)) :
                     x \in {a}, y \in {b}} : TRUE

\* a * d for one digit d
RECURSIVE NatScaleFrom(_, _, _, _)
NatScaleFrom(a, d, i, carry) ==
    IF i > Len(a) THEN (IF carry = 0 THEN <<>> ELSE <<carry>>)
    ELSE CHOOSE product \in
             {<<s % Base>> \o NatScaleFrom(a, d, i + 1, s \div Base) :
                 s \in {a[i] * d + carry}} : TRUE

NatScale(a, d) ==
    CHOOSE product \in {IF e = 0 THEN <<>> ELSE NatScaleFrom(x, e, 1, 0) :
                           x \in {a}, e \in {d}} : TRUE

\* a * 2^k
NatShiftLeft(a, k) ==
    CHOOSE shifted \in {IF x = <<>> THEN x
                        ELSE [i \in 1..(j \div 15) |-> 0] \o NatScale(x, 2^(j % 15)) :
                           x \in {a}, j \in {k}} : TRUE

\* a * (the digits i.. of b)
RECURSIVE NatMulFrom(_, _, _)
NatMulFrom(a, b, i) ==
    IF i > Len(b) THEN <<>>
    ELSE NatAdd(NatScale(a, b[i]), NatShiftLeft(NatMulFrom(a, b, i + 1), 15))

NatMul(a, b) ==
    CHOOSE product \in {NatMulFrom(x, y, 1) : x \in {a}, y \in {b}} : TRUE

\* a \div 2^k
NatShiftRightFrom(a, k) ==
    [i \in 1..(Len(a) - (k \div 15)) |->
        (a[i + (k \div 15)] \div 2^(k % 15))
        + (DigitAt(a, i + (k \div 15) + 1) % 2^(k % 15)) * 2^(15 - (k % 15))]

NatShiftRight(a, k) ==
    CHOOSE shifted \in {NatTrim(s \o <<>>) : s \in {NatShiftRightFrom(x, j) :
                                                     x \in {a}, j \in {k}}} : TRUE

\* the bit of a that counts 2^k
NatBit(a, k) == (DigitAt(a, (k \div 15) + 1) \div 2^(k % 15)) % 2

\* whether a % 2^k # 0
NatLowBits(a, k) == \E i \in 0..(k - 1) : NatBit(a, i) = 1

\* the number of bits of a
NatBitLength(a) ==
    IF a = <<>> THEN 0
    ELSE 15 * (Len(a) - 1) + Cardinality({n \in 0..14 : 2^n <= a[Len(a)]})

\* one step of the long division by q: the next bit of the dividend is taken
\* into the remainder, and the quotient gets its next bit
NatDivStep(q, rem, quot, bit) ==
    CHOOSE next \in
        {[rem |-> IF w[2] >= 0 THEN NatSub(w[1], q) ELSE w[1],
          quot |-> NatAddFrom(quot, quot, 1, IF w[2] >= 0 THEN 1 ELSE 0)] :
            w \in {<<shifted, NatCompare(shifted, q)>> :
                      shifted \in {NatAddFrom(rem, rem, 1, bit)}}} : TRUE

\* long division by q > 0 over the bits k..1 of one digit of the dividend:
\* rem is the remainder and quot the quotient of what was taken before
RECURSIVE NatDivBits(_, _, _, _, _)
NatDivBits(q, rem, quot, digit, k) ==
    IF k = 0 THEN [quot |-> quot, rem |-> rem]
    ELSE CHOOSE d \in {NatDivBits(y, next.rem, next.quot, g, j) :
                          y \in {q}, g \in {digit}, j \in {k - 1},
                          next \in {NatDivStep(q, rem, quot,
                                               (digit \div 2^(k - 1)) % 2)}} :
                    TRUE

\* long division of the digits i..1 of p by q > 0
RECURSIVE NatDivFrom(_, _, _, _, _)
NatDivFrom(p, q, i, rem, quot) ==
    IF i = 0 THEN [quot |-> quot, rem |-> rem]
    ELSE CHOOSE d \in {NatDivFrom(x, y, j, next.rem, next.quot) :
                          x \in {p}, y \in {q}, j \in {i - 1},
                          next \in {NatDivBits(q, rem, quot, p[i], 15)}} :
                    TRUE

\* one step of the division by one digit d > 0: t is the remainder so far
\* with the next digit of the dividend
NatDivDigitStep(d, t, quot) ==
    CHOOSE s \in {[rem |-> u % d, quot |-> <<u \div d>> \o quot] : u \in {t}} :
               TRUE

\* division of the digits i..1 of p by one digit d > 0: rem is the remainder
\* and quot the quotient of the digits above i
RECURSIVE NatDivDigitFrom(_, _, _, _, _)
NatDivDigitFrom(p, d, i, rem, quot) ==
    IF i = 0 THEN [quot |-> NatTrim(quot), rem |-> IF rem = 0 THEN <<>> ELSE <<rem>>]
    ELSE CHOOSE r \in {NatDivDigitFrom(x, e, j, s.rem, s.quot) :
                          x \in {p}, e \in {d}, j \in {i - 1},
                          s \in {NatDivDigitStep(d, rem * Base + p[i], quot)}} :
                    TRUE

NatDivDigit(p, d) == NatDivDigitFrom(p, d, Len(p), 0, <<>>)

NatDivMod(p, q) ==
    CHOOSE d \in {IF Len(y) = 1 THEN NatDivDigit(x, y[1])
                  ELSE NatDivFrom(x, y, Len(x), <<>>, <<>>) :
                     x \in {p}, y \in {q}} : TRUE

\* the float nearest to sign * (a + fraction) * 2^e for a of k + 53 bits,
\* where fraction is in [0, 1) and sticky says whether it is not 0: ties go
\* to the even mantissa
FloatRoundBits(sign, a, e, sticky, k) ==
    LET kept == NatShiftRight(a, k)
        up == NatBit(a, k - 1) = 1
              /\ (sticky \/ NatLowBits(a, k - 1) \/ NatBit(kept, 0) = 1)
    IN  IF k <= 0 THEN [sign |-> sign, m |-> a, e |-> e]
        ELSE [sign |-> sign,
              m |-> IF up THEN NatAdd(kept, <<1>>) ELSE kept,
              e |-> e + k]

FloatRound(sign, n, e, sticky) ==
    CHOOSE f \in {FloatRoundBits(sign, a, e, sticky, NatBitLength(a) - 53) :
                     a \in {n}} : TRUE

\* float(n) for an integer n
FloatOfInt(n) ==
    FloatRound(IF n < 0 THEN -1 ELSE 1, NatOf(IF n < 0 THEN -n ELSE n), 0, FALSE)

\* x / y for x # 0 and y # 0: the quotient of the mantissas, with s more
\* bits so that it has at least 55, rounded
FloatDivBits(x, y, s) ==
    CHOOSE f \in {FloatRound(x.sign * y.sign, d.quot, x.e - y.e - s, d.rem # <<>>) :
                     d \in {NatDivMod(NatShiftLeft(x.m, s), y.m)}} : TRUE

\* x / y for y # 0
FloatDiv(x, y) ==
    CHOOSE f \in
        {IF u.m = <<>> THEN [sign |-> u.sign * v.sign, m |-> <<>>, e |-> 0]
         ELSE FloatDivBits(u, v,
                  IF 55 + NatBitLength(v.m) - NatBitLength(u.m) > 0
                  THEN 55 + NatBitLength(v.m) - NatBitLength(u.m) ELSE 0) :
            u \in {x}, v \in {y}} : TRUE

\* x * y
FloatMul(x, y) ==
    CHOOSE f \in {FloatRound(u.sign * v.sign, NatMul(u.m, v.m), u.e + v.e, FALSE) :
                     u \in {x}, v \in {y}} : TRUE

\* x + y for x # 0 and y # 0, the mantissas a and b brought to the exponent
\* e; c compares a with b.  Equal signs add the mantissas, opposite signs
\* take the smaller from the larger, and the sign is that of the larger.
FloatAddBits(x, y, a, b, e, c) ==
    IF x.sign # y.sign /\ c = 0 THEN [sign |-> 1, m |-> <<>>, e |-> 0]
    ELSE FloatRound(IF c >= 0 THEN x.sign ELSE y.sign,
                    IF x.sign = y.sign THEN NatAdd(a, b)
                    ELSE NatSub(IF c >= 0 THEN a ELSE b, IF c >= 0 THEN b ELSE a),
                    e, FALSE)

\* x + y
FloatAdd(x, y) ==
    CHOOSE f \in
        {IF u.m = <<>> THEN v
         ELSE IF v.m = <<>> THEN u
         ELSE CHOOSE g \in
                  {FloatAddBits(u, v, w[1], w[2], Min2(u.e, v.e), w[3]) :
                      w \in {<<a, b, NatCompare(a, b)>> :
                                a \in {NatShiftLeft(u.m, u.e - Min2(u.e, v.e))},
                                b \in {NatShiftLeft(v.m, v.e - Min2(u.e, v.e))}}} :
                      TRUE :
            u \in {x}, v \in {y}} : TRUE

\* the integer nearest to sign * a * 2^e, ties to the even integer
NearestIntegerBits(sign, a, e) ==
    LET whole == NatValue(NatShiftRight(a, -e))
        up == NatBit(a, -e - 1) = 1
              /\ (NatLowBits(a, -e - 1) \/ whole % 2 = 1)
    IN  IF e >= 0 THEN sign * NatValue(NatShiftLeft(a, e))
        ELSE sign * (whole + IF up THEN 1 ELSE 0)

NearestInteger(sign, n, e) ==
    CHOOSE r \in {NearestIntegerBits(sign, a, e) : a \in {n}} : TRUE

\* Python's round(x, ndigits) for a float x, in units of 10^-ndigits
\* (scale = 10^ndigits): the exact value of x is rounded, ties to even
PythonRound(x, scale) ==
    CHOOSE r \in {NearestInteger(u.sign, NatMul(u.m, NatOf(scale)), u.e) :
                     u \in {x}} : TRUE

\* round(x, ndigits) for a numpy float64 x, in units of 10^-ndigits:
\* np.rint(x * 10^ndigits) (divided by 10^ndigits again)
NumpyRound(x, scale) ==
    CHOOSE r \in {NearestInteger(y.sign, y.m, y.e) :
                     y \in {FloatMul(x, FloatOfInt(scale))}} : TRUE

\* -x
FloatNeg(x) == [sign |-> -x.sign, m |-> x.m, e |-> x.e]

\* -1, 0, 1 as x < y, x = y, x > y: the sign of x - y
FloatCompare(x, y) ==
    CHOOSE c \in {IF d.m = <<>> THEN 0 ELSE d.sign :
                     d \in {FloatAdd(x, FloatNeg(y))}} : TRUE

\* int(x): the integer part of x, toward zero
FloatTruncate(x) ==
    CHOOSE n \in {IF u.e >= 0 THEN u.sign * NatValue(NatShiftLeft(u.m, u.e))
                  ELSE u.sign * NatValue(NatShiftRight(u.m, -u.e)) :
                     u \in {x}} : TRUE

\* the float of k / unit, for a value k the model keeps in 1/unit
FloatOfUnits(k, unit) == FloatDiv(FloatOfInt(k), FloatOfInt(unit))

(***************************************************************************)
(* np.random: one generator for the whole process                          *)
(***************************************************************************)
\* the generator states a process may start from: a window of NumSeeds states
Seeds == 7..(6 + NumSeeds)

\* one step of the generator
RngNext(x) == (x * 25173 + 13849) % 65536

RECURSIVE RngSkip(_, _)
RngSkip(x, k) == IF k = 0 THEN x ELSE RngSkip(RngNext(x), k - 1)

\* the value a state carries: its high byte, 0..255
RngByte(x) == x \div 256

\* an index 0..n-1, uniform over the byte
RngIndex(x, n) == (RngByte(x) * n) \div 256

\* np.random.random() / np.random.uniform(0, 1), in percent 0..99
RandomPct(x) == RngIndex(x, 100)

\* np.random.uniform(0, hi), hi an integer; for hi < 0 the value lies
\* between hi and 0
UniformUpTo(x, hi) == (hi \div 256) * RngByte(x)

\* standard normal deviate, in whole sigmas
NormalZ(x) == RngIndex(x, 5) - 2

\* np.random.exponential(scale): -scale * ln(1 - u) at the midpoint of the
\* byte's octile, in centi-keV for scale = 10.0 keV
ExpQuantiles == <<64, 207, 374, 575, 826, 1163, 1674, 2772>>
Exponential10(x) == ExpQuantiles[RngIndex(x, 8) + 1]

(***************************************************************************)
(* ParticleType (enum used by detector.py and the tests)                   *)
(***************************************************************************)
DARK_MATTER == "DARK_MATTER"
BACKGROUND == "BACKGROUND"
COSMIC_RAY == "COSMIC_RAY"
NEUTRINO == "NEUTRINO"
ParticleType == {DARK_MATTER, BACKGROUND, COSMIC_RAY, NEUTRINO}

(***************************************************************************)
(* PhysicsEngine (imported by detector.py from src/physics; the class      *)
(* itself is exercised by tests/test_physics.py)                           *)
(***************************************************************************)
WIMP_MASS == 50

\* A significance value: +infinity, or sign * sqrt(num / den) with num/den
\* in lowest terms.
SigInf == [kind |-> "inf", sign |-> 1, num |-> 0, den |-> 1]
SigRoot(sgn, n, d) ==
    IF n = 0 \/ sgn = 0
    THEN [kind |-> "fin", sign |-> 0, num |-> 0, den |-> 1]
    ELSE [kind |-> "fin", sign |-> sgn, num |-> n \div Gcd(n, d), den |-> d \div Gcd(n, d)]
SigZero == SigRoot(0, 0, 1)

\* variant with the excess over the background: (signal - background) /
\* sqrt(background)
statistical_significance_excess(signal_events, background_events) ==
    IF signal_events = 0 /\ background_events = 0 THEN SigZero
    ELSE IF background_events = 0 THEN SigInf
    ELSE SigRoot(IF signal_events > background_events THEN 1
                 ELSE IF signal_events < background_events THEN -1 ELSE 0,
                 (signal_events - background_events)
                     * (signal_events - background_events),
                 background_events)

\* PhysicsEngine.statistical_significance(signal_events, background_events)
statistical_significance(signal_events, background_events) ==
    IF signal_events = 0 /\ background_events = 0 THEN SigZero
    ELSE IF background_events = 0 THEN SigInf
    ELSE SigRoot(1, signal_events * signal_events, signal_events + background_events)

\* PhysicsEngine.nuclear_recoil_energy(wimp_mass, nucleus_mass, wimp_velocity):
\* E_r = 2 mu^2 v^2 / m_N, masses in GeV/c^2, velocity in km/s, result in
\* centi-keV (v/c squared is v^2 / 9e10, GeV -> centi-keV is 1e8).
nuclear_recoil_energy(wimp_mass, nucleus_mass, wimp_velocity) ==
    LET mu2 == ((wimp_mass * nucleus_mass) * (wimp_mass * nucleus_mass))
                  \div ((wimp_mass + nucleus_mass) * (wimp_mass + nucleus_mass))
    IN  (2 * mu2 * wimp_velocity * wimp_velocity) \div (900 * nucleus_mass)

\* PhysicsEngine.detector_efficiency(energy), in percent: 0 below the low
\* threshold, a linear ramp up to the plateau at the mid energy, the plateau
\* above it.
EFF_LOW == 300
EFF_MID == 1000
EFF_PLATEAU == 85
detector_efficiency(energy) ==
    IF energy < EFF_LOW THEN 0
    ELSE IF energy < EFF_MID
         THEN (EFF_PLATEAU * (energy - EFF_LOW)) \div (EFF_MID - EFF_LOW)
         ELSE EFF_PLATEAU

\* PhysicsEngine.simulate_interaction_cascade(initial_energy).  The method is
\* called by Detector.process_event (detector.py:107) and by
\* tests/test_physics.py:136-149, which fix the four keys of its result, that
\* primary_recoil is the energy passed in, and that secondary_ionizations and
\* heat_generated are positive for a positive energy.  The number of
\* secondary ionizations is the energy over the ionization energy
\* (config.py:66, 13.6 eV = 136 in 1e-4 keV), at least one; the number of
\* photons is the energy over the scintillation photon energy (config.py:67,
\* 7 keV); the heat is the energy.  initial_energy is the energy of a
\* particle, in 1e-4 keV.
simulate_interaction_cascade(initial_energy) ==
    [primary_recoil |-> initial_energy,
     secondary_ionizations |-> Max2(1, initial_energy \div 136),
     photon_production |-> initial_energy \div 70000,
     heat_generated |-> initial_energy]

(***************************************************************************)
(* DetectorConfig and Detector.__init__                                    *)
(***************************************************************************)
DetectorConfig(kind, mass, temp, thr, rate, days) ==
    [detector_type |-> kind, mass_kg |-> mass, temperature_mk |-> temp,
     energy_threshold_kev |-> thr, energy_resolution |-> 3,
     background_rate_per_kg_day |-> rate, exposure_time_days |-> days]

\* DetectorConfig(): the dataclass defaults
DefaultConfig == DetectorConfig("superfluid_helium", 100, 15, 300, 100, 365)

EmptyDict == <<>>
None == [none |-> TRUE]

\* Detector(config)
NewDetectorObject(config) ==
    [config |-> config, events |-> <<>>, particles |-> <<>>,
     event_counter |-> 0, simulation_stats |-> EmptyDict,
     detector_response |-> <<>>]

\* The energy of a particle is a float.  The model keeps its decimal value
\* in 1e-4 keV (energy) and how the float came about (energy_float): it is
\* the product of the float of recoil_energy (centi-keV) and the float that
\* np.random.normal(1.0, resolution) returned for the standard normal z,
\* which is 1.0 + resolution * z.  An energy that was not smeared is the
\* float of its decimal value: the product with 1.0 + 0.0 * 0.
SmearedBy(recoil_energy, resolution, z) ==
    [recoil_energy |-> recoil_energy, resolution |-> resolution, z |-> z]

Unsmeared(energy) == SmearedBy(energy, 0, 0)

\* the decimal value of the product, in 1e-4 keV
EnergyOf(product) ==
    product.recoil_energy * (100 + product.resolution * product.z)

\* the float of the product: each operation rounds
EnergyFloat(product) ==
    FloatMul(FloatOfUnits(product.recoil_energy, 100),
             FloatAdd(FloatOfInt(1),
                      FloatMul(FloatOfUnits(product.resolution, 100),
                               FloatOfInt(product.z))))

Particle(ptype, product, timestamp, interaction) ==
    [particle_type |-> ptype, energy |-> EnergyOf(product),
     energy_float |-> product, timestamp |-> timestamp,
     interaction_type |-> interaction]

\* np.clip(v, lo, hi) = minimum(maximum(v, lo), hi)
Clip(v, lo, hi) == Min2(Max2(v, lo), hi)

ExposureSeconds(config) == config.exposure_time_days * 86400

(***************************************************************************)
(* Detector.generate_background_events                                     *)
(***************************************************************************)
\* one iteration of the loop, from generator state x: the draws are, in
\* order, exponential, theta, phi, choice, position, timestamp
BackgroundDraw(config, x) ==
    LET x1 == RngNext(x)
        x4 == RngSkip(x1, 3)
        x6 == RngSkip(x4, 2)
        energy == Clip(Exponential10(x1), config.energy_threshold_kev, 100000)
        ptype == IF RngIndex(x4, 2) = 0 THEN BACKGROUND ELSE COSMIC_RAY
    IN  [particle |-> Particle(ptype, Unsmeared(energy),
                               UniformUpTo(x6, ExposureSeconds(config)),
                               "background"),
         rng |-> x6]

\* variant that drops a draw below the threshold instead of clipping it
RECURSIVE generate_background_events_dropping(_, _, _)
generate_background_events_dropping(config, num_events, x) ==
    IF num_events <= 0 THEN [list |-> <<>>, rng |-> x]
    ELSE LET one == BackgroundDraw(config, x)
             rest == generate_background_events_dropping(config, num_events - 1, one.rng)
             keep == Exponential10(RngNext(x)) >= config.energy_threshold_kev
         IN  [list |-> (IF keep THEN <<one.particle>> ELSE <<>>) \o rest.list,
              rng |-> rest.rng]

RECURSIVE generate_background_events(_, _, _)
generate_background_events(config, num_events, x) ==
    IF num_events <= 0 THEN [list |-> <<>>, rng |-> x]
    ELSE LET one == BackgroundDraw(config, x)
             rest == generate_background_events(config, num_events - 1, one.rng)
         IN  [list |-> <<one.particle>> \o rest.list, rng |-> rest.rng]

(***************************************************************************)
(* Detector.generate_dark_matter_events                                    *)
(***************************************************************************)
\* speed = np.random.normal(v0, v0/4), km/s
SpeedDraw(x) == 220 + 55 * NormalZ(x)

\* the threshold test of the loop (line 74): the draw goes on when it holds
PassesThreshold(config, recoil_energy) ==
    ~(recoil_energy < config.energy_threshold_kev)

\* the efficiency test of the loop (line 77)
PassesEfficiency(u, recoil_energy) ==
    ~(u > detector_efficiency(recoil_energy))

\* measured_energy = recoil_energy * np.random.normal(1.0, resolution)
\* (line 80)
MeasuredEnergy(config, recoil_energy, x) ==
    SmearedBy(recoil_energy, config.energy_resolution, NormalZ(x))

\* one iteration of the loop: speed, [random], [smear, theta, phi, position,
\* timestamp]
DarkMatterDraw(config, x) ==
    LET x1 == RngNext(x)
        recoil_energy == nuclear_recoil_energy(WIMP_MASS, 20, SpeedDraw(x1))
        x2 == RngNext(x1)
        x3 == RngNext(x2)
        x7 == RngSkip(x3, 4)
    IN  IF ~PassesThreshold(config, recoil_energy)
        THEN [kept |-> FALSE, rng |-> x1]
        ELSE IF ~PassesEfficiency(RandomPct(x2), recoil_energy)
        THEN [kept |-> FALSE, rng |-> x2]
        ELSE [kept |-> TRUE,
              particle |-> Particle(DARK_MATTER,
                                    MeasuredEnergy(config, recoil_energy, x3),
                                    UniformUpTo(x7, ExposureSeconds(config)),
                                    "nuclear_recoil"),
              rng |-> x7]

RECURSIVE generate_dark_matter_events(_, _, _)
generate_dark_matter_events(config, num_events, x) ==
    IF num_events <= 0 THEN [list |-> <<>>, rng |-> x]
    ELSE LET one == DarkMatterDraw(config, x)
             rest == generate_dark_matter_events(config, num_events - 1, one.rng)
         IN  [list |-> (IF one.kept THEN <<one.particle>> ELSE <<>>) \o rest.list,
              rng |-> rest.rng]

(***************************************************************************)
(* Detector.process_event                                                  *)
(***************************************************************************)
\* int(background_rate_per_kg_day * mass_kg): the product of the two floats
\* is rounded to a float and then truncated toward zero.  The rate is kept in
\* 1e-4 and the mass in 1e-2, so the exact product is in 1e-6.  When the
\* exact product is not a whole number the rounding cannot carry it across
\* one, and when both factors are floats exactly (a rate in 1/16, a mass in
\* 1/4) the product is exact; otherwise the floats are multiplied
\* (0.29 * 100.0 = 28.999999999999996, truncated to 28).
ExpectedBackground(config) ==
    LET rate == config.background_rate_per_kg_day
        mass == config.mass_kg
        product == rate * mass
    IN  IF product % 1000000 # 0 \/ (rate % 625 = 0 /\ mass % 25 = 0)
        THEN IF product >= 0 THEN product \div 1000000
             ELSE -((-product) \div 1000000)
        ELSE FloatTruncate(FloatMul(FloatOfUnits(rate, 10000),
                                    FloatOfUnits(mass, 100)))

\* the Event with the counter read before it is incremented
EventOfStaleCounter(d, particle) ==
    [event_id |-> d.event_counter,
     particles |-> <<particle>>,
     total_energy |-> particle.energy,
     timestamp |-> particle.timestamp,
     detector_hit_count |->
         simulate_interaction_cascade(particle.energy).secondary_ionizations,
     significance |-> statistical_significance(1, ExpectedBackground(d.config)),
     background_probability |->
         IF particle.particle_type = DARK_MATTER THEN 0 ELSE 1]

\* the Event of process_event (lines 105-122)
EventOf(d, particle) ==
    [event_id |-> d.event_counter + 1,
     particles |-> <<particle>>,
     total_energy |-> particle.energy,
     timestamp |-> particle.timestamp,
     detector_hit_count |->
         simulate_interaction_cascade(particle.energy).secondary_ionizations,
     significance |-> statistical_significance(1, ExpectedBackground(d.config)),
     background_probability |->
         IF particle.particle_type = DARK_MATTER THEN 0 ELSE 1]

\* variant that does not keep the particle
process_event_without_particle(d, particle) ==
    [d EXCEPT !.event_counter = d.event_counter + 1,
              !.events = Append(d.events, EventOf(d, particle)),
              !.detector_response =
                  Append(d.detector_response,
                         [energy |-> particle.energy,
                          type |-> particle.particle_type,
                          timestamp |-> particle.timestamp])]

\* variant that stores the new event in front of the others
process_event_prepending(d, particle) ==
    [d EXCEPT !.event_counter = d.event_counter + 1,
              !.events = <<EventOf(d, particle)>> \o d.events,
              !.particles = Append(d.particles, particle),
              !.detector_response =
                  Append(d.detector_response,
                         [energy |-> particle.energy,
                          type |-> particle.particle_type,
                          timestamp |-> particle.timestamp])]

\* the detector after process_event(particle)
process_event(d, particle) ==
    [d EXCEPT !.event_counter = d.event_counter + 1,
              !.events = Append(d.events, EventOf(d, particle)),
              !.particles = Append(d.particles, particle),
              !.detector_response =
                  Append(d.detector_response,
                         [energy |-> particle.energy,
                          type |-> particle.particle_type,
                          timestamp |-> particle.timestamp])]

RECURSIVE ProcessAll(_, _)
ProcessAll(d, list) ==
    IF list = <<>> THEN d
    ELSE ProcessAll(process_event(d, Head(list)), Tail(list))

(***************************************************************************)
(* Detector.run_simulation                                                 *)
(***************************************************************************)
Swap(list, i, j) == [list EXCEPT ![i] = list[j], ![j] = list[i]]

\* np.random.shuffle(list): for i = n-1 .. 1: j = randint(0, i); swap
RECURSIVE ShuffleFrom(_, _, _)
ShuffleFrom(list, i, x) ==
    IF i < 2 THEN [list |-> list, rng |-> x]
    ELSE LET x1 == RngNext(x)
         IN  ShuffleFrom(Swap(list, i, RngIndex(x1, i) + 1), i - 1, x1)

Shuffle(list, x) == ShuffleFrom(list, Len(list), x)

IsDarkMatterEvent(e) == e.particles[1].particle_type = DARK_MATTER
IsNotDarkMatterEvent(e) == e.particles[1].particle_type # DARK_MATTER

\* dm_detections (line 146) and bg_rejections (line 147)
DmDetections(events) ==
    Cardinality({i \in Indices(events) : IsDarkMatterEvent(events[i])})
\* variant that counts only the BACKGROUND tag
BgRejectionsBackgroundOnly(events) ==
    Cardinality({i \in Indices(events) :
                    events[i].particles[1].particle_type = BACKGROUND})
BgRejections(events) ==
    Cardinality({i \in Indices(events) : IsNotDarkMatterEvent(events[i])})

EnergiesOf(events) == [i \in 1..Len(events) |-> events[i].total_energy]
TimestampsOf(events) == [i \in 1..Len(events) |-> events[i].timestamp]

\* a Python float quotient num / den; den = 0 raises ZeroDivisionError
Ratio(num, den) ==
    IF den = 0 THEN [raised |-> TRUE, num |-> 0, den |-> 0]
    ELSE [raised |-> FALSE, num |-> num, den |-> den]

\* variant without the guard on the denominator
EfficiencyStatUnguarded(dm_detections, dark_matter_events) ==
    Ratio(dm_detections, dark_matter_events)

\* variant dividing by the signal events recorded
EfficiencyStatOverRecorded(dm_detections, dark_matter_events) ==
    IF dark_matter_events > 0 THEN Ratio(dm_detections, dm_detections)
    ELSE Ratio(0, 1)

\* 'detector_efficiency' (line 157)
EfficiencyStat(dm_detections, dark_matter_events) ==
    IF dark_matter_events > 0 THEN Ratio(dm_detections, dark_matter_events)
    ELSE Ratio(0, 1)

\* the simulation_stats dictionary (lines 149-158)
SimulationStats(d, dark_matter_events) ==
    [total_events |-> Len(d.events),
     dark_matter_candidates |-> DmDetections(d.events),
     background_events |-> BgRejections(d.events),
     mean_energy |-> IF d.events # <<>>
                     THEN Ratio(SumSeq(EnergiesOf(d.events)), Len(d.events))
                     ELSE Ratio(0, 1),
     max_energy |-> IF d.events # <<>> THEN MaxSeq(EnergiesOf(d.events)) ELSE 0,
     min_energy |-> IF d.events # <<>> THEN MinSeq(EnergiesOf(d.events)) ELSE 0,
     total_exposure |-> d.config.exposure_time_days * d.config.mass_kg,
     detector_efficiency |->
         EfficiencyStat(DmDetections(d.events), dark_matter_events)]

\* run_simulation(background_events, dark_matter_events) on detector d from
\* generator state x: the detector afterwards, the generator afterwards, and
\* whether the call raised
run_simulation(d, background_events, dark_matter_events, x) ==
    LET bg == generate_background_events(d.config, background_events, x)
        dm == generate_dark_matter_events(d.config, dark_matter_events, bg.rng)
        all == Shuffle(bg.list \o dm.list, dm.rng)
        d2 == ProcessAll(d, all.list)
        stats == SimulationStats(d2, dark_matter_events)
    IN  IF stats.detector_efficiency.raised
        THEN [raised |-> TRUE, det |-> d2, rng |-> all.rng,
              n_bg |-> Len(bg.list), n_dm |-> Len(dm.list)]
        ELSE [raised |-> FALSE, det |-> [d2 EXCEPT !.simulation_stats = stats],
              rng |-> all.rng, n_bg |-> Len(bg.list), n_dm |-> Len(dm.list)]

(***************************************************************************)
(* run_simulation, one np.random call at a time                            *)
(***************************************************************************)
\* where run_simulation is after a step that left todo_bg / todo_dm draws
PhaseOf(todo_bg, todo_dm) ==
    IF todo_bg > 0 THEN "background"
    ELSE IF todo_dm > 0 THEN "dark_matter" ELSE "shuffle"

\* the frame of detector.run_simulation(b, s) as it is entered on a new
\* Detector(config): at counts the np.random calls made in the iteration in
\* progress; energy (centi-keV), measured and ptype are the locals of the
\* iteration
EnteredRun(config, b, s) ==
    [pc |-> PhaseOf(b, s),
     det |-> NewDetectorObject(config),
     background_events |-> b, dark_matter_events |-> s,
     todo_bg |-> b, todo_dm |-> s,
     bg_particles |-> <<>>, dm_particles |-> <<>>,
     at |-> 0, energy |-> 0, measured |-> Unsmeared(0), ptype |-> BACKGROUND]

\* one np.random call of the loop of generate_background_events, x the
\* state of the generator after it; the calls of an iteration are, in
\* order: exponential (line 38), theta, phi, choice, position, timestamp
BackgroundCall(run, x) ==
    LET config == run.det.config
    IN  IF run.at = 0
        THEN [run EXCEPT !.at = 1,
                         !.energy = Clip(Exponential10(x),
                                         config.energy_threshold_kev, 100000)]
        ELSE IF run.at = 3
        THEN [run EXCEPT !.at = 4,
                         !.ptype = IF RngIndex(x, 2) = 0 THEN BACKGROUND
                                   ELSE COSMIC_RAY]
        ELSE IF run.at = 5
        THEN [run EXCEPT
                 !.bg_particles =
                     Append(@, Particle(run.ptype, Unsmeared(run.energy),
                                        UniformUpTo(x, ExposureSeconds(config)),
                                        "background")),
                 !.todo_bg = @ - 1,
                 !.pc = PhaseOf(run.todo_bg - 1, run.todo_dm),
                 !.at = 0, !.energy = 0, !.ptype = BACKGROUND]
        ELSE [run EXCEPT !.at = @ + 1]

\* one np.random call of the loop of generate_dark_matter_events, x the
\* state of the generator after it; the calls of an iteration are, in
\* order: speed (line 68), random (line 77), the smearing (line 80), theta,
\* phi, position, timestamp; the `continue` of lines 75 and 78 ends the
\* iteration after the first or the second
DarkMatterCall(run, x) ==
    LET config == run.det.config
        next == [run EXCEPT !.todo_dm = @ - 1,
                            !.pc = PhaseOf(0, run.todo_dm - 1),
                            !.at = 0, !.energy = 0,
                            !.measured = Unsmeared(0)]
    IN  IF run.at = 0
        THEN IF PassesThreshold(config,
                    nuclear_recoil_energy(WIMP_MASS, 20, SpeedDraw(x)))
             THEN [run EXCEPT
                      !.at = 1,
                      !.energy = nuclear_recoil_energy(WIMP_MASS, 20,
                                                       SpeedDraw(x))]
             ELSE next
        ELSE IF run.at = 1
        THEN IF PassesEfficiency(RandomPct(x), run.energy)
             THEN [run EXCEPT !.at = 2]
             ELSE next
        ELSE IF run.at = 2
        THEN [run EXCEPT !.at = 3,
                         !.measured = MeasuredEnergy(config, run.energy, x)]
        ELSE IF run.at = 6
        THEN [next EXCEPT
                 !.dm_particles =
                     Append(@, Particle(DARK_MATTER, run.measured,
                                        UniformUpTo(x, ExposureSeconds(config)),
                                        "nuclear_recoil"))]
        ELSE [run EXCEPT !.at = @ + 1]

\* the rest of run_simulation from generator state x: the one call of
\* np.random.shuffle (line 141), then every particle is processed and the
\* statistics are taken; the detector and the generator afterwards
FinishedRun(run, x) ==
    LET all == Shuffle(run.bg_particles \o run.dm_particles, x)
    IN  CHOOSE done \in
            {[det |-> [d2 EXCEPT !.simulation_stats =
                                     SimulationStats(d2, run.dark_matter_events)],
              rng |-> all.rng] :
                d2 \in {ProcessAll(run.det, all.list)}} : TRUE

(***************************************************************************)
(* np.histogram and the Detector's two histograms                          *)
(***************************************************************************)
\* np.histogram(values, bins = nbins, range = (lo, hi)) over integers.  A
\* range with lo = hi is widened to (lo - 0.5, hi + 0.5) in the unit of the
\* data; unit is that unit in the units of the values (10000 for the
\* energies of the Detector's events, kept in 1e-4 keV, 100 for energies
\* kept in centi-keV, 1 for times, kept in seconds).  The arithmetic is done
\* in half units so that the widened range stays integral.  Values outside
\* [lo, hi] are dropped, the last bin is closed on the right.  hi < lo raises
\* ValueError.  floats[i] is the float the code holds for values[i], and
\* fhi the float it holds for hi.
HistRange(lo, hi, unit) ==
    IF lo = hi THEN [lo2 |-> 2 * lo - unit, hi2 |-> 2 * hi + unit,
                     lo |-> lo, hi |-> hi, unit |-> unit]
    ELSE [lo2 |-> 2 * lo, hi2 |-> 2 * hi, lo |-> lo, hi |-> hi, unit |-> unit]

\* the floats of values the code holds as the floats nearest to them
NearestFloats(values, unit) ==
    [i \in 1..Len(values) |-> FloatOfUnits(values[i], unit)]

\* the outer edges as numpy holds them, <<first_edge, last_edge>>: the floats
\* of lo and hi, and for lo = hi these less and plus 0.5
OuterEdges(r, fhi) ==
    [side \in 1..2 |->
        FloatAdd(IF side = 1 THEN FloatOfUnits(r.lo, r.unit) ELSE fhi,
                 IF r.lo # r.hi THEN [sign |-> 1, m |-> <<>>, e |-> 0]
                 ELSE [sign |-> IF side = 1 THEN -1 ELSE 1, m |-> <<1>>,
                       e |-> -1])] \o <<>>

\* np.linspace(first_edge, last_edge, nbins + 1)[k] for 0 <= k <= nbins:
\* k * ((last_edge - first_edge) / nbins) + first_edge, each operation
\* rounded, and last_edge itself for k = nbins
LinspaceEdge(k, nbins, r, fhi) ==
    CHOOSE e \in
        {IF k = nbins THEN outer[2]
         ELSE FloatAdd(FloatMul(FloatOfInt(k),
                                FloatDiv(FloatAdd(outer[2], FloatNeg(outer[1])),
                                         FloatOfInt(nbins))),
                       outer[1]) :
            outer \in {OuterEdges(r, fhi)}} : TRUE

\* the bin (1..nbins) of a value, 0 for a value outside the range
\* ((v >= first_edge) & (v <= last_edge) fails).  numpy estimates the bin
\* from (v - first_edge) / (last_edge - first_edge) * nbins and then moves it
\* by one where the value is below the bin's left edge or not below its
\* right edge, so the bin is decided by the comparison with the float edges
\* of linspace.  Off an edge the rounding of the edges cannot change the
\* comparison.  The outer edges of a range that is not widened are the
\* floats of lo and hi themselves.  A value exactly on any other edge k in
\* exact arithmetic is compared with the float edge: below an interior
\* edge it is counted one bin lower, below the first edge or above the last
\* it is dropped.  fv is the float of v.
BinIndex(v, fv, nbins, r, fhi) ==
    LET num == (2 * v - r.lo2) * nbins
        width == r.hi2 - r.lo2
        k == num \div width
    IN  IF num < 0 \/ num > nbins * width THEN 0
        ELSE IF num % width # 0 THEN k + 1
        ELSE IF r.lo # r.hi /\ k = 0 THEN 1
        ELSE IF r.lo # r.hi /\ k = nbins THEN nbins
        ELSE CHOOSE b \in
                 {IF (k = 0 /\ c < 0) \/ (k = nbins /\ c > 0) THEN 0
                  ELSE IF c < 0 \/ k = nbins THEN k
                  ELSE k + 1 :
                     c \in {FloatCompare(fv,
                                         LinspaceEdge(k, nbins, r, fhi))}} : TRUE

\* the counts of the bins; bin[i] is the bin of values[i]
HistCounts(values, floats, nbins, r, fhi) ==
    CHOOSE c \in
        {[b \in 1..nbins |-> Cardinality({i \in 1..Len(bin) : bin[i] = b})] :
            bin \in {[i \in 1..Len(values) |->
                        BinIndex(values[i], floats[i], nbins, r, fhi)]
                     \o <<>>}} : TRUE

\* the nbins + 1 bin edges, rounded down to whole units
HistEdges(nbins, r) ==
    [k \in 1..(nbins + 1) |->
        r.lo2 \div 2
        + ((r.lo2 % 2) * nbins + (k - 1) * (r.hi2 - r.lo2)) \div (2 * nbins)]

Histogram(values, floats, nbins, lo, hi, fhi, unit) ==
    IF hi < lo THEN [raised |-> TRUE, counts |-> <<>>, bins |-> <<>>]
    ELSE CHOOSE h \in {[raised |-> FALSE,
                        counts |-> HistCounts(values, floats, nbins, r, fhi),
                        bins |-> HistEdges(nbins, r)] :
                          r \in {HistRange(lo, hi, unit)}} : TRUE

\* the floats of [e.total_energy for e in events]: total_energy is the
\* energy of the event's particle (line 111)
EnergyFloatsOf(events) ==
    [i \in 1..Len(events) |-> EnergyFloat(events[i].particles[1].energy_float)]

\* the float of max(energies) (best = 1) or min(energies) (best = -1) for
\* the events whose decimal energy is the greatest or the least, value:
\* the greatest or the least of their floats
ExtremeEnergyFloat(events, value, best) ==
    LET held == { events[i].particles[1].energy_float :
                    i \in { j \in 1..Len(events) :
                               events[j].total_energy = value } }
    IN  EnergyFloat(CHOOSE t \in held :
                       \/ Cardinality(held) = 1
                       \/ \A u \in held :
                             best * FloatCompare(EnergyFloat(t), EnergyFloat(u))
                                >= 0)

SPECTRUM_BINS == 50
TEMPORAL_BINS == 30

\* Detector.get_energy_spectrum: 'bins' and 'counts', and with events also
\* 'energies', the list the histogram was taken of
get_energy_spectrum(d) ==
    IF d.events = <<>> THEN [raised |-> FALSE, bins |-> <<>>, counts |-> <<>>]
    ELSE CHOOSE s \in
             {IF h.raised THEN h
              ELSE [raised |-> FALSE, bins |-> h.bins, counts |-> h.counts,
                    energies |-> EnergiesOf(d.events)] :
                 h \in {Histogram(EnergiesOf(d.events),
                                  EnergyFloatsOf(d.events), SPECTRUM_BINS,
                                  0, MaxSeq(EnergiesOf(d.events)),
                                  ExtremeEnergyFloat(d.events,
                                      MaxSeq(EnergiesOf(d.events)), 1),
                                  10000)}} : TRUE

\* Detector.get_temporal_distribution (the bin edges are returned as 'times'):
\* with events also 'total_time', the exposure in seconds
get_temporal_distribution(d) ==
    IF d.events = <<>> THEN [raised |-> FALSE, bins |-> <<>>, counts |-> <<>>]
    ELSE CHOOSE s \in
             {IF h.raised THEN h
              ELSE [raised |-> FALSE, bins |-> h.bins, counts |-> h.counts,
                    total_time |-> ExposureSeconds(d.config)] :
                 h \in {Histogram(TimestampsOf(d.events),
                                  NearestFloats(TimestampsOf(d.events), 1),
                                  TEMPORAL_BINS,
                                  MinSeq(TimestampsOf(d.events)),
                                  MaxSeq(TimestampsOf(d.events)),
                                  FloatOfInt(MaxSeq(TimestampsOf(d.events))),
                                  1)}} : TRUE

(***************************************************************************)
(* The library-level state machine: one Detector, used as the tests use it *)
(***************************************************************************)
\* configurations a caller constructs a Detector with
DetConfigs ==
    { DefaultConfig,
      DetectorConfig("liquid_xenon", 200, 180, 600, 10000, 10),
      DetectorConfig("germanium", 100, 15, 150000, 100, -1),
      [DetectorConfig("scintillator", 100, 15, 300, 100, 365)
          EXCEPT !.energy_resolution = 60] }

\* particles a caller hands to process_event directly
CallerParticles ==
    { Particle(DARK_MATTER, Unsmeared(5000), 0, "nuclear_recoil"),
      Particle(BACKGROUND, Unsmeared(1000), 100, "background") }

\* the threads that execute runs side by side
RunIds == {"a", "b"}

vars == <<rng, det, ret, drawn, coll, simulation_state, simulation_history, phys, runs>>

\* what the Detector's methods leave alone
others == <<coll, simulation_state, simulation_history, phys, runs>>

Init ==
    /\ rng \in Seeds
    /\ det \in {NewDetectorObject(c) : c \in DetConfigs}
    /\ ret = [op |-> "Detector", raised |-> FALSE]
    /\ drawn = 0
    /\ coll = <<>>
    /\ simulation_state = [current_sim |-> None, history |-> <<>>]
    /\ simulation_history = <<>>
    /\ phys = [pc |-> "idle", calls |-> 0]
    /\ runs = [r \in RunIds |-> [pc |-> "new"]]

\* detector.generate_background_events(num_events)
GenerateBackgroundEvents(num_events) ==
    /\ drawn + num_events <= MaxStream
    /\ LET r == generate_background_events(det.config, num_events, rng)
       IN  /\ rng' = r.rng
           /\ ret' = [op |-> "generate_background_events", raised |-> FALSE,
                      num_events |-> num_events, value |-> r.list]
    /\ drawn' = drawn + num_events
    /\ UNCHANGED <<det, others>>

\* detector.generate_dark_matter_events(num_events)
GenerateDarkMatterEvents(num_events) ==
    /\ drawn + num_events <= MaxStream
    /\ LET r == generate_dark_matter_events(det.config, num_events, rng)
       IN  /\ rng' = r.rng
           /\ ret' = [op |-> "generate_dark_matter_events", raised |-> FALSE,
                      num_events |-> num_events, value |-> r.list]
    /\ drawn' = drawn + num_events
    /\ UNCHANGED <<det, others>>

\* detector.process_event(particle)
ProcessEvent(particle) ==
    /\ Len(det.events) < MaxEvents
    /\ det' = process_event(det, particle)
    /\ ret' = [op |-> "process_event", raised |-> FALSE,
               particle |-> particle, value |-> EventOf(det, particle)]
    /\ UNCHANGED <<rng, drawn, others>>

\* detector.run_simulation(background_events, dark_matter_events)
RunSimulation(background_events, dark_matter_events) ==
    /\ drawn + background_events + dark_matter_events <= MaxStream
    /\ Len(det.events) + background_events + dark_matter_events <= MaxEvents
    /\ \E r \in {run_simulation(det, background_events, dark_matter_events, rng)} :
           /\ det' = r.det
           /\ rng' = r.rng
           /\ ret' = [op |-> "run_simulation", raised |-> r.raised,
                      background_events |-> background_events,
                      dark_matter_events |-> dark_matter_events,
                      events_before |-> Len(det.events),
                      n_bg |-> r.n_bg, n_dm |-> r.n_dm,
                      value |-> r.det.simulation_stats]
    /\ drawn' = drawn + background_events + dark_matter_events
    /\ UNCHANGED others

\* detector.get_energy_spectrum()
GetEnergySpectrum ==
    /\ ret.op # "get_energy_spectrum"
    /\ \E spectrum \in {get_energy_spectrum(det)} :
           ret' = [op |-> "get_energy_spectrum", raised |-> spectrum.raised,
                   value |-> spectrum]
    /\ UNCHANGED <<rng, det, drawn, others>>

\* detector.get_temporal_distribution()
GetTemporalDistribution ==
    /\ ret.op # "get_temporal_distribution"
    /\ \E temporal \in {get_temporal_distribution(det)} :
           ret' = [op |-> "get_temporal_distribution",
                   raised |-> temporal.raised, value |-> temporal]
    /\ UNCHANGED <<rng, det, drawn, others>>


Next ==
    \/ \E n \in 0..MaxDraws : GenerateBackgroundEvents(n)
    \/ \E n \in 0..MaxDraws : GenerateDarkMatterEvents(n)
    \/ \E p \in CallerParticles : ProcessEvent(p)
    \/ \E b \in 0..MaxDraws, s \in 0..MaxDraws : RunSimulation(b, s)
    \/ GetEnergySpectrum
    \/ GetTemporalDistribution

Spec == Init /\ [][Next]_vars

(***************************************************************************)
(* EventCollection (particle.py)                                           *)
(***************************************************************************)
DetectionEvent(id, ts, energy, signal) ==
    [event_id |-> id, timestamp |-> ts, energy_deposited |-> energy,
     is_signal |-> signal, detector_response |-> energy]

\* events a caller adds: timestamps in seconds, energies in centi-keV
CallerEvents ==
    { DetectionEvent(1, ts, e, sig) :
        ts \in {0, 60}, e \in {250, 1000}, sig \in BOOLEAN }

\* bin counts a caller asks for (100 and 50 are the defaults)
BinChoices == {1, 4, 50, 100}

ResponsesOf(events) == [i \in 1..Len(events) |-> events[i].detector_response]

\* seconds since the first event of the collection
RelativeTimes(events) ==
    [i \in 1..Len(events) |-> events[i].timestamp - events[1].timestamp]

SignalEvents(events) == SelectSeq(events, LAMBDA e : e.is_signal)

\* np.histogram(values, bins = nbins) without a range: the range is
\* (min, max) of the data, and (0, 1) for no data; unit is the model's
\* integer for 1.0
HistogramAuto(values, nbins, unit) ==
    Histogram(values, NearestFloats(values, unit), nbins,
              IF values = <<>> THEN 0 ELSE MinSeq(values),
              IF values = <<>> THEN unit ELSE MaxSeq(values),
              FloatOfUnits(IF values = <<>> THEN unit ELSE MaxSeq(values), unit),
              unit)

\* EventCollection.get_energy_spectrum(bins)
coll_get_energy_spectrum(events, bins) ==
    HistogramAuto(ResponsesOf(events), bins, 100)

\* EventCollection.get_temporal_distribution(bins)
coll_get_temporal_distribution(events, bins) ==
    HistogramAuto(RelativeTimes(events), bins, 1)

\* np.max / np.min of an array: ValueError on a zero-size array
ArrayMax(values) ==
    IF values = <<>> THEN [raised |-> TRUE, value |-> 0]
    ELSE [raised |-> FALSE, value |-> MaxSeq(values)]
ArrayMin(values) ==
    IF values = <<>> THEN [raised |-> TRUE, value |-> 0]
    ELSE [raised |-> FALSE, value |-> MinSeq(values)]

\* np.mean of an array: nan (with a warning, no exception) on a zero-size one
ArrayMean(values) ==
    IF values = <<>> THEN [nan |-> TRUE, num |-> 0, den |-> 1]
    ELSE [nan |-> FALSE, num |-> SumSeq(values), den |-> Len(values)]

\* EventCollection.get_statistics
coll_get_statistics(events) ==
    LET energies == ResponsesOf(events)
        signal_events == SignalEvents(events)
        top == ArrayMax(energies)
        bottom == ArrayMin(energies)
    IN  IF top.raised \/ bottom.raised
        THEN [raised |-> TRUE, error |-> "ValueError"]
        ELSE [raised |-> FALSE,
              total_events |-> Len(events),
              dark_matter_candidates |-> Len(signal_events),
              background_events |-> Len(events) - Len(signal_events),
              mean_energy |-> ArrayMean(energies),
              max_energy |-> top.value,
              min_energy |-> bottom.value]

collFrame == <<rng, det, drawn, simulation_state, simulation_history, phys, runs>>

\* collection.add_event(event)
AddEvent(event) ==
    /\ Len(coll) < MaxColl
    /\ coll' = Append(coll, event)
    /\ ret' = [op |-> "add_event", raised |-> FALSE]
    /\ UNCHANGED collFrame

\* collection.get_statistics()
CollGetStatistics ==
    /\ ret' = [op |-> "coll.get_statistics",
               raised |-> coll_get_statistics(coll).raised,
               value |-> coll_get_statistics(coll)]
    /\ UNCHANGED <<coll, collFrame>>

\* collection.get_energy_spectrum(bins)
CollGetEnergySpectrum(bins) ==
    /\ \E spectrum \in {coll_get_energy_spectrum(coll, bins)} :
           ret' = [op |-> "coll.get_energy_spectrum", bins |-> bins,
                   raised |-> spectrum.raised, value |-> spectrum]
    /\ UNCHANGED <<coll, collFrame>>

\* collection.get_temporal_distribution(bins)
CollGetTemporalDistribution(bins) ==
    /\ \E temporal \in {coll_get_temporal_distribution(coll, bins)} :
           ret' = [op |-> "coll.get_temporal_distribution", bins |-> bins,
                   raised |-> temporal.raised, value |-> temporal]
    /\ UNCHANGED <<coll, collFrame>>

NextCollection ==
    \/ \E e \in CallerEvents : AddEvent(e)
    \/ CollGetStatistics
    \/ \E n \in BinChoices : CollGetEnergySpectrum(n)
    \/ \E n \in BinChoices : CollGetTemporalDistribution(n)

\* the collection is used on its own: the generator and the Detector stay
\* as one of the initial states has them
InitCollection == Init /\ rng = 7 /\ det = NewDetectorObject(DefaultConfig)

SpecCollection == InitCollection /\ [][NextCollection]_vars

\* events stored one at a time, in a Detector (process_event) and in an
\* EventCollection (add_event), and the read-only methods of both
StoredEvents == { e \in CallerEvents : e.is_signal /\ e.detector_response = 250 }

NextEvents ==
    \/ \E p \in CallerParticles : ProcessEvent(p)
    \/ GetEnergySpectrum
    \/ GetTemporalDistribution
    \/ \E e \in StoredEvents : AddEvent(e)
    \/ CollGetStatistics
    \/ \E n \in BinChoices : CollGetEnergySpectrum(n)
    \/ \E n \in BinChoices : CollGetTemporalDistribution(n)

SpecEvents == InitCollection /\ [][NextEvents]_vars

(***************************************************************************)
(* app.py: the Flask handlers over simulation_state                        *)
(***************************************************************************)
\* whether num / den (den > 0) lies halfway between two integers
IsTie(num, den) == 2 * (num % den) = den

\* the integer nearest to num / den (den > 0) when that is no tie
NearestOffTie(num, den) == (2 * num + den) \div (2 * den)

\* round(num / den, ndigits) for integers num and den > 0 (lines 97, 222),
\* in units of 10^-ndigits (scale = 10^ndigits).  The float num / den is
\* within 2^-53 of the quotient, so off a decimal tie round() gives the
\* nearest value and on a tie the side the float lies on decides.
RoundQuotient(num, den, scale) ==
    IF IsTie(num * scale, den)
    THEN PythonRound(FloatDiv(FloatOfInt(num), FloatOfInt(den)), scale)
    ELSE NearestOffTie(num * scale, den)

\* round((num / den) * 100, 2) (lines 219, 224), in hundredths
RoundPercentage(num, den) ==
    IF IsTie(num * 10000, den)
    THEN PythonRound(FloatMul(FloatDiv(FloatOfInt(num), FloatOfInt(den)),
                              FloatOfInt(100)), 100)
    ELSE NearestOffTie(num * 10000, den)

\* the float of a value the model keeps in hundredths
FloatOfHundredths(k) == FloatOfUnits(k, 100)

\* round(num / x, 4) for the float x > 0 of a value in hundredths (line 225),
\* in units of 10^-4
RoundQuotientByHundredths(num, hundredths) ==
    IF IsTie(num * 1000000, hundredths)
    THEN PythonRound(FloatDiv(FloatOfInt(num), FloatOfHundredths(hundredths)),
                     10000)
    ELSE NearestOffTie(num * 1000000, hundredths)

\* np.add.reduce over float64 values, numpy's pairwise summation: below 8
\* values they are added in order; up to 128, eight running sums take the
\* values in turn, are added in pairs, and the values left over are added in
\* order; above 128 the two halves are summed apart
RECURSIVE FloatSumInOrder(_, _, _)
FloatSumInOrder(values, i, sum) ==
    IF i > Len(values) THEN sum
    ELSE CHOOSE r \in {FloatSumInOrder(v, j, s) :
                          v \in {values}, j \in {i + 1},
                          s \in {FloatAdd(sum, values[i])}} : TRUE

RECURSIVE FloatLaneSum(_, _, _)
FloatLaneSum(values, j, block) ==
    IF block = 0 THEN values[j]
    ELSE FloatAdd(FloatLaneSum(values, j, block - 1), values[8 * block + j])

RECURSIVE PairwiseSumOf(_)
PairwiseSumOf(values) ==
    LET n == Len(values)
        r(j) == FloatLaneSum(values, j, (n \div 8) - 1)
        half == (n \div 2) - ((n \div 2) % 8)
    IN  IF n < 8 THEN FloatSumInOrder(values, 1, FloatOfInt(0))
        ELSE IF n <= 128
        THEN FloatSumInOrder(values, 8 * (n \div 8) + 1,
                 FloatAdd(FloatAdd(FloatAdd(r(1), r(2)), FloatAdd(r(3), r(4))),
                          FloatAdd(FloatAdd(r(5), r(6)), FloatAdd(r(7), r(8)))))
        ELSE FloatAdd(PairwiseSumOf(SubSeq(values, 1, half)),
                      PairwiseSumOf(SubSeq(values, half + 1, n)))

PairwiseSum(values) ==
    CHOOSE sum \in {PairwiseSumOf(v) : v \in {values}} : TRUE

\* round(np.mean(energies), 2) (detector.py line 153, app.py line 93), in
\* hundredths, for energies kept in 1e-4 and held as floats; the mean of no
\* events is 0
RoundMean(energies, floats) ==
    IF energies = <<>> THEN 0
    ELSE IF IsTie(SumSeq(energies), 100 * Len(energies))
    THEN NumpyRound(FloatDiv(PairwiseSum(floats \o <<>>),
                             FloatOfInt(Len(energies))), 100)
    ELSE NearestOffTie(SumSeq(energies), 100 * Len(energies))

\* round(energy, 2) (app.py lines 94-95) for an energy kept in 1e-4 and held
\* as float, in hundredths: off a tie the nearest, on a tie the side the
\* float lies on
RoundEnergy(energy, float) ==
    IF IsTie(energy, 100) THEN PythonRound(float, 100)
    ELSE NearestOffTie(energy, 100)

\* the JSON body of a request: wellformed = FALSE is a body get_json()
\* cannot decode, json = FALSE a null or empty body (`not data`), object =
\* FALSE any other body that is not a JSON object (a list, a number),
\* finite = FALSE a body whose exposure_time_days is read as float infinity
\* (1e999).  unread names a posted value that is not a number: "text" (a
\* string float() and int() cannot read), "null", "list", or
\* "infinite_count" (background_events posted as 1e999); "none" when every
\* value is a number.
Request(kind, mass, temp, thr, rate, days, b, s) ==
    [wellformed |-> TRUE, json |-> TRUE, object |-> TRUE, unread |-> "none",
     finite |-> TRUE,
     detector_type |-> kind, mass_kg |-> mass,
     temperature_mk |-> temp, energy_threshold_kev |-> thr,
     background_rate |-> rate, exposure_time_days |-> days,
     background_events |-> b, dark_matter_events |-> s]

GoodRequest == Request("superfluid_helium", 100, 15, 300, 100, 365, 10, 1)

\* bodies a client posts to /api/simulate
SimulateRequests ==
    { GoodRequest,
      [GoodRequest EXCEPT !.wellformed = FALSE],
      [GoodRequest EXCEPT !.finite = FALSE],
      [GoodRequest EXCEPT !.json = FALSE],
      [GoodRequest EXCEPT !.object = FALSE],
      [GoodRequest EXCEPT !.unread = "text"],
      [GoodRequest EXCEPT !.unread = "null"],
      [GoodRequest EXCEPT !.unread = "list"],
      [GoodRequest EXCEPT !.unread = "infinite_count"],
      [GoodRequest EXCEPT !.detector_type = "unobtainium"],
      [GoodRequest EXCEPT !.energy_threshold_kev = 20000, !.temperature_mk = 1000,
                          !.exposure_time_days = 0, !.background_rate = 50000],
      [GoodRequest EXCEPT !.background_events = 9],
      [GoodRequest EXCEPT !.background_events = 50001],
      [GoodRequest EXCEPT !.dark_matter_events = 0],
      [GoodRequest EXCEPT !.dark_matter_events = 1001],
      [GoodRequest EXCEPT !.mass_kg = 0],
      [GoodRequest EXCEPT !.mass_kg = 1000001] }

\* DetectorConfig(...) as start_simulation builds it (lines 52-59)
ConfigOfRequest(data) ==
    [detector_type |-> data.detector_type, mass_kg |-> data.mass_kg,
     temperature_mk |-> data.temperature_mk,
     energy_threshold_kev |-> data.energy_threshold_kev,
     energy_resolution |-> 3,
     background_rate_per_kg_day |-> data.background_rate,
     exposure_time_days |-> data.exposure_time_days]

\* the exception float() or int() raises on the values of the body (lines
\* 53-64): ValueError for a text, TypeError for null or a list,
\* OverflowError for int() of infinity
ConversionRaises(data) ==
    IF data.unread = "text" THEN "ValueError"
    ELSE IF data.unread \in {"null", "list"} THEN "TypeError"
    ELSE IF data.unread = "infinite_count" THEN "OverflowError"
    ELSE "none"

\* variant without the check of mass_kg
RefusalStatusLax(data) ==
    IF ~data.wellformed THEN 500
    ELSE IF ~data.json THEN 400
    ELSE IF ~data.object THEN 500
    ELSE IF ConversionRaises(data) = "ValueError" THEN 400
    ELSE IF ConversionRaises(data) # "none" THEN 500
    ELSE IF data.background_events < 10 \/ data.background_events > 50000 THEN 400
    ELSE IF data.dark_matter_events < 1 \/ data.dark_matter_events > 1000 THEN 400
    ELSE 0

\* the status the request is refused with, or 0 when it goes on to the run:
\* get_json() of line 46 raises on an undecodable body (answered 500 at line
\* 125), `not data` answers 400 (lines 49-50), data.get of a body that is no
\* object raises AttributeError (500), a ValueError of the conversions is
\* answered 400 (line 123) and any other exception 500, and the checks of
\* lines 67-74 answer 400
RefusalStatus(data) ==
    IF ~data.wellformed THEN 500
    ELSE IF ~data.json THEN 400
    ELSE IF ~data.object THEN 500
    ELSE IF ConversionRaises(data) = "ValueError" THEN 400
    ELSE IF ConversionRaises(data) # "none" THEN 500
    ELSE IF data.background_events < 10 \/ data.background_events > 50000 THEN 400
    ELSE IF data.dark_matter_events < 1 \/ data.dark_matter_events > 1000 THEN 400
    ELSE IF data.mass_kg < 1 \/ data.mass_kg > 1000000 THEN 400
    ELSE 0

\* the response of a completed simulation (lines 84-114); the wall-clock
\* 'timestamp' of the response is left out.  The energies of the statistics
\* are rounded to hundredths of a keV (lines 93-95); the bin edges of the
\* energy spectrum are in 1e-4 keV.
SimulationResponse(data, d, history) ==
    LET results == d.simulation_stats
        config == d.config
    IN  CHOOSE response \in
         {[simulation_id |-> Len(history) + 1,
           status |-> "completed",
           statistics |->
              [total_events |-> results.total_events,
               dark_matter_candidates |-> results.dark_matter_candidates,
               background_events |-> results.background_events,
               mean_energy |-> RoundMean(EnergiesOf(d.events),
                                         EnergyFloatsOf(d.events)),
               max_energy |->
                   RoundEnergy(results.max_energy,
                               ExtremeEnergyFloat(d.events,
                                                  results.max_energy, 1)),
               min_energy |->
                   RoundEnergy(results.min_energy,
                               ExtremeEnergyFloat(d.events,
                                                  results.min_energy, -1)),
               total_exposure |-> results.total_exposure,
               detector_efficiency |->
                   RoundQuotient(results.detector_efficiency.num,
                                 results.detector_efficiency.den, 10000)],
           energy_spectrum |-> [bins |-> spectrum.bins,
                                counts |-> spectrum.counts],
           temporal_distribution |-> [times |-> temporal.bins,
                                      counts |-> temporal.counts],
           detector_config |->
              [detector_type |-> config.detector_type,
               mass_kg |-> config.mass_kg,
               temperature_mk |-> config.temperature_mk,
               threshold_kev |-> config.energy_threshold_kev,
               background_rate |-> config.background_rate_per_kg_day,
               exposure_time_days |-> config.exposure_time_days]] :
             spectrum \in {get_energy_spectrum(d)},
             temporal \in {get_temporal_distribution(d)}} : TRUE

apiFrame == <<det, coll, simulation_history, phys, runs>>

\* the total number of particle draws the handlers may request
ApiStream == 11 * MaxHistory

\* POST /api/simulate
StartSimulation(data) ==
    /\ Len(simulation_state.history) < MaxHistory
    /\ IF RefusalStatus(data) # 0
       THEN /\ ret' = [op |-> "POST /api/simulate", status |-> RefusalStatus(data),
                       request |-> data]
            /\ UNCHANGED <<rng, drawn, simulation_state>>
       ELSE IF ~data.finite
       THEN \* the first timestamp draw of the run raises OverflowError, after
            \* the five draws before it in the loop body; the request uses
            \* up its share of the stream
            /\ drawn + data.background_events + data.dark_matter_events
                  <= ApiStream
            /\ rng' = RngSkip(rng, 5)
            /\ drawn' = drawn + data.background_events + data.dark_matter_events
            /\ ret' = [op |-> "POST /api/simulate", status |-> 500,
                       request |-> data]
            /\ UNCHANGED simulation_state
       ELSE /\ drawn + data.background_events + data.dark_matter_events
                  <= ApiStream
            /\ \E run \in {run_simulation(NewDetectorObject(ConfigOfRequest(data)),
                                          data.background_events,
                                          data.dark_matter_events, rng)} :
                /\ rng' = run.rng
                /\ drawn' = drawn + data.background_events + data.dark_matter_events
                /\ IF \/ run.raised
                      \/ get_energy_spectrum(run.det).raised
                      \/ get_temporal_distribution(run.det).raised
                   THEN /\ ret' = [op |-> "POST /api/simulate",
                                   status |-> IF run.raised THEN 500 ELSE 400,
                                   request |-> data]
                        /\ UNCHANGED simulation_state
                   ELSE \E response \in {SimulationResponse(data, run.det,
                                              simulation_state.history)} :
                        /\ simulation_state' =
                              [current_sim |-> response,
                               history |-> Append(simulation_state.history, response)]
                        /\ ret' = [op |-> "POST /api/simulate", status |-> 200,
                                   request |-> data, body |-> response]
    /\ UNCHANGED apiFrame

\* GET /api/results
GetResults ==
    /\ ret' = IF simulation_state.current_sim # None
              THEN [op |-> "GET /api/results", status |-> 200,
                    body |-> simulation_state.current_sim]
              ELSE [op |-> "GET /api/results", status |-> 404]
    /\ UNCHANGED <<rng, drawn, simulation_state, apiFrame>>

\* GET /api/history
GetHistory ==
    /\ ret' = [op |-> "GET /api/history", status |-> 200,
               body |-> [total_simulations |-> Len(simulation_state.history),
                         history |-> simulation_state.history]]
    /\ UNCHANGED <<rng, drawn, simulation_state, apiFrame>>

\* GET /api/export
ExportData ==
    /\ ret' = IF simulation_state.current_sim = None
              THEN [op |-> "GET /api/export", status |-> 404]
              ELSE [op |-> "GET /api/export", status |-> 200,
                    body |-> simulation_state.current_sim]
    /\ UNCHANGED <<rng, drawn, simulation_state, apiFrame>>

\* the analysis of POST /api/statistics (lines 212-243); ratios are kept as
\* numerator and denominator, percentages in hundredths.  The test of line
\* 239 is on the percentage before it is rounded: (bg / total) * 100 > 90.
StatisticsAnalysis(sim) ==
    LET stats == sim.statistics
        config == sim.detector_config
        total == stats.total_events
        dm == stats.dark_matter_candidates
        bg == stats.background_events
        bg_rejection_pct ==
            IF total > 0 THEN RoundPercentage(bg, Max2(total, 1)) ELSE 0
    IN  [signal_to_noise |->
            IF bg > 0 THEN [inf |-> FALSE, value |-> RoundQuotient(dm, Max2(bg, 1), 10000)]
            ELSE [inf |-> TRUE, value |-> 0],
         discovery_potential |->
            IF dm > 5 THEN "High" ELSE IF dm > 1 THEN "Medium" ELSE "Low",
         background_rejection_percentage |-> bg_rejection_pct,
         signal_efficiency |->
            RoundQuotientByHundredths(dm, Max2(stats.total_exposure, 100)),
         energy_range |-> [min_kev |-> stats.min_energy,
                           max_kev |-> stats.max_energy,
                           mean_kev |-> stats.mean_energy],
         detector_info |->
            [type |-> config.detector_type, mass_kg |-> config.mass_kg,
             total_exposure_kg_days |-> config.exposure_time_days * config.mass_kg],
         recommendations |->
            (IF dm < 3 THEN <<"Consider longer exposure for better sensitivity">>
             ELSE <<>>)
            \o (IF dm > 10 THEN <<"Excellent signal detection achieved">> ELSE <<>>)
            \o (IF total > 0 /\ 100 * bg > 90 * Max2(total, 1)
                THEN <<"Background rejection is optimal">> ELSE <<>>)]

\* variant that marks the stored results as analysed
CalculateStatisticsRewriting(wellformed) ==
    /\ ret' = [op |-> "POST /api/statistics",
               status |-> IF simulation_state.current_sim = None THEN 404 ELSE 200,
               wellformed |-> wellformed]
    /\ simulation_state' =
          [simulation_state EXCEPT
              !.history = [i \in 1..Len(@) |-> [@[i] EXCEPT !.status = "analysed"]]]
    /\ UNCHANGED <<rng, drawn, apiFrame>>

\* POST /api/statistics; wellformed: whether get_json() can decode the body
\* of the request (line 204, before anything else is looked at)
CalculateStatistics(wellformed) ==
    /\ ret' = IF ~wellformed
              THEN [op |-> "POST /api/statistics", status |-> 500,
                    wellformed |-> wellformed]
              ELSE IF simulation_state.current_sim = None
              THEN [op |-> "POST /api/statistics", status |-> 404,
                    wellformed |-> wellformed]
              ELSE [op |-> "POST /api/statistics", status |-> 200,
                    wellformed |-> wellformed,
                    body |-> StatisticsAnalysis(simulation_state.current_sim)]
    /\ UNCHANGED <<rng, drawn, simulation_state, apiFrame>>

\* POST /api/clear
ClearHistory ==
    /\ simulation_state' = [current_sim |-> None, history |-> <<>>]
    /\ ret' = [op |-> "POST /api/clear", status |-> 200]
    /\ UNCHANGED <<rng, drawn, apiFrame>>

NextApi ==
    \/ \E data \in SimulateRequests : StartSimulation(data)
    \/ GetResults
    \/ GetHistory
    \/ ExportData
    \/ \E wellformed \in BOOLEAN : CalculateStatistics(wellformed)
    \/ ClearHistory

InitApi == Init /\ det = NewDetectorObject(DefaultConfig)

SpecApi == InitApi /\ [][NextApi]_vars

(***************************************************************************)
(* app.py handlers in concurrent request threads (app.run serves each      *)
(* request in its own thread): runs[r] is the position of thread r         *)
(***************************************************************************)
\* the body the concurrent clients post: it passes the checks of lines
\* 46-74 and its run completes
ConcurrentRequests == { GoodRequest }

threadFrame == <<det, coll, simulation_history, phys>>

\* the phases of run_simulation in which np.random calls are still to come
Generating == {"background", "dark_matter", "shuffle"}

\* whether a np.random call of thread r now comes between two calls of a
\* run of another thread: that thread made the call before this one (its
\* 'last' is the state the generator is in) and is still inside
\* run_simulation
Pauses(r) ==
    \E o \in RunIds \ {r} : runs[o].pc \in Generating /\ runs[o].last = rng

\* the number of times a run was paused so far
PausesMade ==
    LET made(r) == IF runs[r].pc = "new" \/ runs[r].pc = "clearing" THEN 0
                   ELSE runs[r].paused
    IN  made("a") + made("b")

\* the threads are switched between any two bytecodes; the model follows
\* the schedules that pause a run at most MaxPauses times
MayCall(r) == Pauses(r) => PausesMade < MaxPauses

\* start_simulation, lines 46-77: the body is read, the Detector built and
\* run_simulation entered; last is the state of the generator after the
\* last np.random call of the thread (-1 before the first), paused the
\* number of times a call of the thread paused another run
ApiBegin(r, data) ==
    /\ runs[r].pc = "new"
    /\ RefusalStatus(data) = 0 /\ data.finite
    /\ drawn + data.background_events + data.dark_matter_events <= ApiStream
    /\ drawn' = drawn + data.background_events + data.dark_matter_events
    /\ runs' = [runs EXCEPT ![r] =
                  EnteredRun(ConfigOfRequest(data), data.background_events,
                             data.dark_matter_events)
                  @@ [data |-> data, last |-> -1, paused |-> 0]]
    /\ UNCHANGED <<rng, ret, simulation_state, threadFrame>>

\* run_simulation (called at line 77), one np.random call of the two
\* generation loops: it draws from the generator of the process, which no
\* lock guards
ApiCall(r) ==
    /\ runs[r].pc \in {"background", "dark_matter"}
    /\ MayCall(r)
    /\ rng' = RngNext(rng)
    /\ runs' = [runs EXCEPT ![r] =
                  [(IF runs[r].pc = "background"
                    THEN BackgroundCall(runs[r], RngNext(rng))
                    ELSE DarkMatterCall(runs[r], RngNext(rng)))
                   EXCEPT !.last = RngNext(rng),
                          !.paused = @ + IF Pauses(r) THEN 1 ELSE 0]]
    /\ UNCHANGED <<drawn, ret, simulation_state, threadFrame>>

\* the rest of run_simulation: np.random.shuffle, the events, the
\* statistics (detector.py lines 141-160)
ApiFinish(r) ==
    /\ runs[r].pc = "shuffle"
    /\ MayCall(r)
    /\ \E done \in {FinishedRun(runs[r], rng)} :
           /\ rng' = done.rng
           /\ runs' = [runs EXCEPT ![r] =
                         [pc |-> "ran", data |-> runs[r].data,
                          det |-> done.det,
                          paused |-> runs[r].paused
                                     + IF Pauses(r) THEN 1 ELSE 0]]
    /\ UNCHANGED <<drawn, ret, simulation_state, threadFrame>>

\* start_simulation, lines 80-115: the histograms are taken and the
\* response is compiled, simulation_id read from the length of the history
\* (line 86)
ApiBuild(r) ==
    /\ runs[r].pc = "ran"
    /\ runs' = [runs EXCEPT ![r] =
                   [pc |-> "store", paused |-> runs[r].paused,
                    response |-> SimulationResponse(runs[r].data, runs[r].det,
                                                    simulation_state.history)]]
    /\ UNCHANGED <<rng, drawn, ret, simulation_state, threadFrame>>

\* start_simulation, line 118
ApiStore(r) ==
    /\ runs[r].pc = "store"
    /\ simulation_state' =
          [simulation_state EXCEPT !.current_sim = runs[r].response]
    /\ runs' = [runs EXCEPT ![r].pc = "append"]
    /\ UNCHANGED <<rng, drawn, ret, threadFrame>>

\* start_simulation, lines 119-121
ApiAppend(r) ==
    /\ runs[r].pc = "append"
    /\ simulation_state' =
          [simulation_state EXCEPT !.history = Append(@, runs[r].response)]
    /\ ret' = [op |-> "POST /api/simulate", status |-> 200,
               body |-> runs[r].response]
    /\ runs' = [runs EXCEPT ![r] = [pc |-> "new"]]
    /\ UNCHANGED <<rng, drawn, threadFrame>>

\* clear_history, line 264
ApiClearHistory(r) ==
    /\ runs[r].pc = "new"
    /\ simulation_state' = [simulation_state EXCEPT !.history = <<>>]
    /\ runs' = [runs EXCEPT ![r] = [pc |-> "clearing"]]
    /\ UNCHANGED <<rng, drawn, ret, threadFrame>>

\* clear_history, lines 265-266
ApiClearCurrent(r) ==
    /\ runs[r].pc = "clearing"
    /\ simulation_state' = [simulation_state EXCEPT !.current_sim = None]
    /\ ret' = [op |-> "POST /api/clear", status |-> 200]
    /\ runs' = [runs EXCEPT ![r] = [pc |-> "new"]]
    /\ UNCHANGED <<rng, drawn, threadFrame>>

NextApiConcurrent ==
    \E r \in RunIds :
        \/ \E data \in ConcurrentRequests : ApiBegin(r, data)
        \/ ApiCall(r)
        \/ ApiFinish(r)
        \/ ApiBuild(r)
        \/ ApiStore(r)
        \/ ApiAppend(r)
        \/ ApiClearHistory(r)
        \/ ApiClearCurrent(r)

SpecApiConcurrent == InitApi /\ [][NextApiConcurrent]_vars

(***************************************************************************)
(* routes.py: the blueprint handlers over simulation_history               *)
(***************************************************************************)
\* the JSON body of a request to the blueprint: decodes = FALSE is a body
\* get_json() raises on, object = FALSE a body that is not a JSON object
\* (null, a list), numeric = FALSE a body in which the first value handed to
\* float() is a text that is not a number
SimulateBody(kind, b, s) ==
    [decodes |-> TRUE, object |-> TRUE, numeric |-> TRUE,
     detector_type |-> kind, background_events |-> b, dark_matter_events |-> s]

StatisticsBody(threshold) ==
    [decodes |-> TRUE, object |-> TRUE, numeric |-> TRUE,
     signal_threshold |-> threshold]

\* a body the handler reads all its values from
Readable(data) == data.decodes /\ data.object /\ data.numeric

\* bodies a client posts to /simulate
RoutesSimulateRequests ==
    { SimulateBody(kind, b, s) :
         kind \in {"superfluid_helium", "germanium"},
         b \in 0..MaxCount, s \in 0..MaxCount }
    \cup { [SimulateBody("superfluid_helium", 1, 1) EXCEPT !.decodes = FALSE],
           [SimulateBody("superfluid_helium", 1, 1) EXCEPT !.object = FALSE],
           [SimulateBody("superfluid_helium", 1, 1) EXCEPT !.numeric = FALSE] }

\* config.SIGNIFICANCE_THRESHOLD, the value of a body without
\* 'signal_threshold', and other thresholds a client may post, in whole sigmas
SIGNIFICANCE_THRESHOLD == 3
SignalThresholds == {-1, 0, 1, SIGNIFICANCE_THRESHOLD}

\* bodies a client posts to /statistics
RoutesStatisticsRequests ==
    { StatisticsBody(th) : th \in SignalThresholds }
    \cup { [StatisticsBody(SIGNIFICANCE_THRESHOLD) EXCEPT !.decodes = FALSE],
           [StatisticsBody(SIGNIFICANCE_THRESHOLD) EXCEPT !.object = FALSE],
           [StatisticsBody(SIGNIFICANCE_THRESHOLD) EXCEPT !.numeric = FALSE] }

\* the exception raised inside the try block of simulate (lines 19-54):
\* by get_json(), by data.get of a body that is no object, by float() of a
\* text, and otherwise by Detector(detector_type=..., mass_kg=...,
\* temperature_mk=...), whose __init__ (detector.py line 22) has the one
\* parameter `config`
SimulateRaises(data) ==
    IF ~data.decodes THEN "BadRequest"
    ELSE IF ~data.object THEN "AttributeError"
    ELSE IF ~data.numeric THEN "ValueError"
    ELSE "TypeError"

\* the 'significance' of /statistics (lines 117-120)
RoutesSignificance(observed_signal, expected_background) ==
    IF expected_background > 0
    THEN SigRoot(IF observed_signal > expected_background THEN 1
                 ELSE IF observed_signal < expected_background THEN -1 ELSE 0,
                 (observed_signal - expected_background)
                     * (observed_signal - expected_background),
                 expected_background)
    ELSE SigZero

\* significance >= signal_threshold, the threshold in whole sigmas
SigAtLeast(sig, threshold) ==
    IF sig.kind = "inf" THEN TRUE
    ELSE IF sig.sign > 0
    THEN threshold <= 0 \/ sig.num >= threshold * threshold * sig.den
    ELSE IF sig.sign = 0 THEN threshold <= 0
    ELSE threshold < 0 /\ sig.num <= threshold * threshold * sig.den

\* the answer of /statistics for the latest stored results (lines 109-134).
\* With background events the significance is a numpy float, the comparison
\* with the threshold a numpy.bool_, which jsonify cannot encode: the
\* TypeError is answered 400 at line 136.
RoutesStatisticsAnswer(results, signal_threshold) ==
    LET stats == results.statistics
        signal_events == stats.dark_matter_candidates
        background_events == stats.background_events
        significance == RoutesSignificance(signal_events, background_events)
    IN  IF background_events > 0
        THEN [op |-> "POST /statistics", status |-> 400]
        ELSE [op |-> "POST /statistics", status |-> 200,
              body |-> [total_events |-> stats.total_events,
                        signal_events |-> signal_events,
                        background_events |-> background_events,
                        signal_to_background_ratio |->
                            [inf |-> TRUE, num |-> 0, den |-> 1],
                        significance_sigma |-> significance,
                        discovery_threshold_met |->
                            SigAtLeast(significance, signal_threshold)]]

routesFrame == <<rng, det, drawn, coll, simulation_state, phys, runs>>

\* POST /simulate (blueprint): every request raises before line 43, is
\* answered 400 at line 56, and leaves simulation_history as it was
RoutesSimulate(data) ==
    /\ ret' = [op |-> "POST /simulate", status |-> 400,
               error |-> SimulateRaises(data), request |-> data]
    /\ UNCHANGED <<simulation_history, routesFrame>>

\* GET /results (blueprint)
RoutesGetResults ==
    /\ ret' = IF simulation_history = <<>>
              THEN [op |-> "GET /results", status |-> 404]
              ELSE [op |-> "GET /results", status |-> 200,
                    body |-> simulation_history[Len(simulation_history)]]
    /\ UNCHANGED <<simulation_history, routesFrame>>

\* POST /statistics (blueprint): the body is read at lines 100-101, before
\* the history is looked at
RoutesCalculateStatistics(data) ==
    /\ ret' = [request |-> data] @@
              (IF ~Readable(data)
               THEN [op |-> "POST /statistics", status |-> 400]
               ELSE IF simulation_history = <<>>
               THEN [op |-> "POST /statistics", status |-> 404]
               ELSE RoutesStatisticsAnswer(
                       simulation_history[Len(simulation_history)].results,
                       data.signal_threshold))
    /\ UNCHANGED <<simulation_history, routesFrame>>

\* engine.statistical_significance(signal_events, background_events),
\* called directly as tests/test_physics.py does
EngineSignificance(signal_events, background_events) ==
    /\ ret' = [op |-> "statistical_significance",
               signal_events |-> signal_events,
               background_events |-> background_events,
               value |-> statistical_significance(signal_events, background_events)]
    /\ UNCHANGED <<simulation_history, routesFrame>>

NextRoutes ==
    \/ \E data \in RoutesSimulateRequests : RoutesSimulate(data)
    \/ RoutesGetResults
    \/ \E data \in RoutesStatisticsRequests : RoutesCalculateStatistics(data)
    \/ \E s \in 0..MaxCount, b \in 0..MaxCount : EngineSignificance(s, b)

SpecRoutes == InitCollection /\ [][NextRoutes]_vars

(***************************************************************************)
(* physics.py: the module-level functions                                  *)
(***************************************************************************)
\* Velocities are in km/s.  The functions draw from a generator of the same
\* kind as the Detector's; the model keeps its state in rng.
SumSquares(v) == v[1] * v[1] + v[2] * v[2] + v[3] * v[3]

\* np.random.normal(0, v_0, 3): three values, three steps of the generator
NormalTriple(v_0, x) ==
    LET x1 == RngNext(x)
        x2 == RngNext(x1)
        x3 == RngNext(x2)
    IN  [value |-> <<v_0 * NormalZ(x1), v_0 * NormalZ(x2), v_0 * NormalZ(x3)>>,
         rng |-> x3]

\* v_mag <= v_esc
AtMostEscape(v, v_esc) == v_esc >= 0 /\ SumSquares(v) <= v_esc * v_esc

\* v_mag < v_esc with v_mag = sqrt(sum(v**2)) >= 0 (line 32)
BelowEscape(v, v_esc) == v_esc > 0 /\ SumSquares(v) < v_esc * v_esc

\* arguments callers pass: the defaults 220 and 544 km/s, an escape velocity
\* equal to v_0, and one that no magnitude is below
VelocityScales == {220}
EscapeVelocities == {544, 220, 0}

physFrame == <<det, drawn, coll, simulation_state, simulation_history, runs>>

Idle == phys.pc = "idle"

\* maxwell_boltzmann_velocity(v_0, v_esc): the call enters `while True`
CallVelocity(v_0, v_esc) ==
    /\ Idle
    /\ phys.calls < MaxCalls
    /\ phys' = [pc |-> "sampling", calls |-> phys.calls + 1,
                v_0 |-> v_0, v_esc |-> v_esc, rejected |-> FALSE]
    /\ ret' = [op |-> "call maxwell_boltzmann_velocity"]
    /\ UNCHANGED <<rng, physFrame>>

\* one iteration of the loop (lines 28-33): draw, test, return or go round
VelocityIteration ==
    /\ phys.pc = "sampling"
    /\ LET draw == NormalTriple(phys.v_0, rng)
       IN  /\ rng' = draw.rng
           /\ IF BelowEscape(draw.value, phys.v_esc)
              THEN /\ ret' = [op |-> "maxwell_boltzmann_velocity",
                              v_0 |-> phys.v_0, v_esc |-> phys.v_esc,
                              rejected |-> phys.rejected,
                              raised |-> FALSE, value |-> draw.value]
                   /\ phys' = [pc |-> "idle", calls |-> phys.calls]
              ELSE /\ phys' = [phys EXCEPT !.rejected = TRUE]
                   /\ UNCHANGED ret
    /\ UNCHANGED physFrame

\* np.random.poisson(lam) for a whole number lam: a count 0..2*lam
PoissonDraw(x, lam) == IF lam = 0 THEN 0 ELSE RngIndex(x, 2 * lam + 1)

\* np.random.exponential(scale) for scale = width / 3 (line 148), width in
\* centi-keV
ExponentialDraw(x, width) == (ExpQuantiles[RngIndex(x, 8) + 1] * width) \div 3000

\* np.random.exponential(width / 3, n): n values, n steps of the generator
RECURSIVE ExponentialArray(_, _, _)
ExponentialArray(x, width, n) ==
    IF n = 0 THEN <<>>
    ELSE <<ExponentialDraw(RngNext(x), width)>>
            \o ExponentialArray(RngNext(x), width, n - 1)

\* the mask of line 152
InEnergyRange(e, lo, hi) == e >= lo /\ e <= hi

\* every draw kept, moved to the nearest limit when outside the range
generate_background_clipping(lo, hi, rate, exposure_time, x) ==
    LET x1 == RngNext(x)
        n_events == PoissonDraw(x1, rate * exposure_time)
        energies == ExponentialArray(x1, hi - lo, n_events)
    IN  [n_events |-> n_events, energies |-> energies,
         value |-> [i \in 1..n_events |-> Clip(energies[i], lo, hi)],
         rng |-> RngSkip(x1, n_events)]

\* generate_background(energy_range = (lo, hi), rate, exposure_time)
generate_background(lo, hi, rate, exposure_time, x) ==
    LET x1 == RngNext(x)
        n_events == PoissonDraw(x1, rate * exposure_time)
        energies == ExponentialArray(x1, hi - lo, n_events)
    IN  [n_events |-> n_events, energies |-> energies,
         value |-> SelectSeq(energies, LAMBDA e : InEnergyRange(e, lo, hi)),
         rng |-> RngSkip(x1, n_events)]

\* max(0, measured_energy) left out
NoClamp(measured_energy) == measured_energy

\* max(0, measured_energy) (line 177)
ClampNonNegative(measured_energy) == Max2(0, measured_energy)

\* apply_detector_response(energy, resolution, efficiency): energy in
\* centi-keV, resolution and efficiency in percent.  sigma = energy *
\* resolution is energy * resolution / 100 centi-keV, not a whole number of
\* them, so the measured energy and the value returned are in hundredths of
\* a centi-keV.  A return of None is detected = FALSE.
apply_detector_response(energy, resolution, efficiency, x) ==
    LET x1 == RngNext(x)
        u == RandomPct(x1)
        x2 == RngNext(x1)
        sigma == energy * resolution
        measured_energy == 100 * energy + sigma * NormalZ(x2)
    IN  IF u > efficiency
        THEN [detected |-> FALSE, u |-> u, measured_energy |-> 0, value |-> 0,
              rng |-> x1]
        ELSE [detected |-> TRUE, u |-> u, measured_energy |-> measured_energy,
              value |-> ClampNonNegative(measured_energy), rng |-> x2]

\* arguments callers pass
EnergyRanges == { <<300, 1800>>, <<0, 1800>> }
BackgroundMeans == {0, 2}
TrueEnergies == {0, 250, 1000}
Resolutions == {3, 60}
Efficiencies == {0, 50, 100}

\* generate_background((lo, hi), rate, exposure_time), rate * exposure = lam
GenerateBackground(range, lam) ==
    /\ Idle
    /\ phys.calls < MaxCalls
    /\ LET r == generate_background(range[1], range[2], lam, 1, rng)
       IN  /\ rng' = r.rng
           /\ ret' = [op |-> "generate_background", raised |-> FALSE,
                      lo |-> range[1], hi |-> range[2],
                      n_events |-> r.n_events,
                      energies |-> r.energies,
                      value |-> r.value]
    /\ phys' = [phys EXCEPT !.calls = @ + 1]
    /\ UNCHANGED physFrame

\* apply_detector_response(energy, resolution, efficiency)
ApplyDetectorResponse(energy, resolution, efficiency) ==
    /\ Idle
    /\ phys.calls < MaxCalls
    /\ LET r == apply_detector_response(energy, resolution, efficiency, rng)
       IN  /\ rng' = r.rng
           /\ ret' = [op |-> "apply_detector_response", raised |-> FALSE,
                      energy |-> energy, resolution |-> resolution,
                      efficiency |-> efficiency, u |-> r.u,
                      detected |-> r.detected,
                      measured_energy |-> r.measured_energy,
                      value |-> r.value]
    /\ phys' = [phys EXCEPT !.calls = @ + 1]
    /\ UNCHANGED physFrame

\* The form factor is computed in fixed point: q in tenths of fm^-1; lengths,
\* angles and values in millionths (the value is good to about 1e-5).
Abs(x) == IF x < 0 THEN -x ELSE x
Sign(x) == IF x < 0 THEN -1 ELSE 1

\* floor(a * b / 10^6) for a, b >= 0, by limbs of three digits so that no
\* intermediate product leaves 32 bits
MulLimbs(a, b) ==
    LET a2 == a \div 1000000
        a1 == (a \div 1000) % 1000
        a0 == a % 1000
        b2 == b \div 1000000
        b1 == (b \div 1000) % 1000
        b0 == b % 1000
    IN  a2 * b2 * 1000000 + (a2 * b1 + a1 * b2) * 1000
          + a2 * b0 + a1 * b1 + a0 * b2
          + ((a1 * b0 + a0 * b1) * 1000 + a0 * b0) \div 1000000

\* the product of two numbers in millionths, cut toward zero
MulMicro(a, b) ==
    CHOOSE r \in { Sign(x) * Sign(y) * MulLimbs(Abs(x), Abs(y)) :
                   x \in {a}, y \in {b} } : TRUE

\* n more decimal digits of the quotient q, remainder r, of a division by b
RECURSIVE DivDigits(_, _, _, _)
DivDigits(q, r, b, n) ==
    IF n = 0 THEN q
    ELSE CHOOSE v \in { DivDigits(q2, r2, b, n - 1) :
                        q2 \in {q * 10 + (r * 10) \div b},
                        r2 \in {(r * 10) % b} } : TRUE

\* the quotient of two numbers in millionths, cut toward zero (b # 0)
DivMicro(a, b) ==
    CHOOSE r \in { Sign(x) * Sign(y)
                     * DivDigits(Abs(x) \div Abs(y), Abs(x) % Abs(y), Abs(y), 6) :
                   x \in {a}, y \in {b} } : TRUE

\* np.sqrt of n >= 0 in millionths, by bisection over lo..hi
RECURSIVE SqrtIn(_, _, _)
SqrtIn(n, lo, hi) ==
    IF lo = hi THEN lo
    ELSE CHOOSE r \in { IF MulMicro(mid, mid) <= n THEN SqrtIn(n, mid, hi)
                        ELSE SqrtIn(n, lo, mid - 1) :
                        mid \in {(lo + hi + 1) \div 2} } : TRUE
SqrtMicro(n) == SqrtIn(n, 0, 46000000)

\* A**(1/3) in millionths, by bisection over lo..hi
RECURSIVE CbrtIn(_, _, _)
CbrtIn(n, lo, hi) ==
    IF lo = hi THEN lo
    ELSE CHOOSE r \in { IF MulMicro(MulMicro(mid, mid), mid) <= n
                        THEN CbrtIn(n, mid, hi)
                        ELSE CbrtIn(n, lo, mid - 1) :
                        mid \in {(lo + hi + 1) \div 2} } : TRUE
CbrtMicro(A) == CbrtIn(A * 1000000, 0, 7000000)

\* pi, 2 pi and 1/e in millionths
PI_MICRO == 3141593
TWO_PI_MICRO == 6283185
INV_E_MICRO == 367879

\* an angle brought into [-pi, pi]
ReduceAngle(x) ==
    LET r == x % TWO_PI_MICRO
    IN  IF r > PI_MICRO THEN r - TWO_PI_MICRO ELSE r

\* the sum term + term*(-x2)/((n+1)(n+2)) + ..., the Taylor series of sin
\* (from term = x, n = 1) and cos (from term = 1, n = 0); x2 is x squared
RECURSIVE TaylorTrig(_, _, _)
TaylorTrig(term, x2, n) ==
    IF term = 0 \/ n > 40 THEN 0
    ELSE CHOOSE r \in { term + TaylorTrig(t, x2, n + 2) :
                        t \in {-Sign(term) * (MulMicro(Abs(term), x2)
                                                \div ((n + 1) * (n + 2)))} } : TRUE

\* np.sin and np.cos of an angle in millionths, in millionths
SinMicro(x) ==
    CHOOSE v \in { TaylorTrig(r, MulMicro(r, r), 1) : r \in {ReduceAngle(x)} } : TRUE
CosMicro(x) ==
    CHOOSE v \in { TaylorTrig(1000000, MulMicro(r, r), 0) : r \in {ReduceAngle(x)} } : TRUE

\* the series 1 - y + y^2/2 - ... of np.exp(-y), 0 <= y < 1 in millionths
RECURSIVE TaylorExpNeg(_, _, _)
TaylorExpNeg(term, y, n) ==
    IF term = 0 \/ n > 40 THEN 0
    ELSE CHOOSE r \in { term + TaylorExpNeg(t, y, n + 1) :
                        t \in {-Sign(term) * (MulMicro(Abs(term), y)
                                                \div (n + 1))} } : TRUE

\* v times exp(-k) for a whole k
RECURSIVE TimesInvE(_, _)
TimesInvE(v, k) ==
    IF k = 0 THEN v
    ELSE CHOOSE r \in { TimesInvE(w, k - 1) : w \in {MulMicro(INV_E_MICRO, v)} } : TRUE

\* np.exp(-y) for y >= 0 in millionths: exp(-frac) * exp(-1)^whole
ExpNegMicro(y) ==
    CHOOSE r \in { TimesInvE(TaylorExpNeg(1000000, v % 1000000, 0), v \div 1000000) :
                   v \in {y} } : TRUE

\* the sum 1 - x2/10 + x2^2/280 - ..., each term the last one times
\* -x2 / ((2k+2)(2k+5)): the series of 3 * (sin(x)/x**2 - cos(x)/x) / x
RECURSIVE TaylorJ1(_, _, _)
TaylorJ1(term, x2, k) ==
    IF term = 0 \/ k > 20 THEN 0
    ELSE CHOOSE r \in { term + TaylorJ1(t, x2, k + 1) :
                        t \in {-Sign(term) * (MulMicro(Abs(term), x2)
                                                \div ((2 * k + 2) * (2 * k + 5)))} } : TRUE

\* 3 * j1 with j1 = np.sin(qR)/(qR**2) - np.cos(qR)/qR, qR > 0 in millionths.
\* Below qR = 1 the two quotients agree in their leading digits and their
\* difference is lost in millionths; the same number is summed there as the
\* power series of the difference.
ThreeJ1(qR) ==
    IF qR < 1000000 THEN MulMicro(qR, TaylorJ1(1000000, MulMicro(qR, qR), 0))
    ELSE 3 * (DivMicro(DivMicro(SinMicro(qR), qR), qR) - DivMicro(CosMicro(qR), qR))

\* R = sqrt(R1**2 - 5*s**2) with R1 = 1.2 * A**(1/3) and s = 0.9, in
\* millionths of fm; the square root of a negative number is nan
HelmRadius(A) ==
    CHOOSE r \in { IF R2 < 0 THEN [nan |-> TRUE, R |-> 0]
                   ELSE [nan |-> FALSE, R |-> SqrtMicro(R2)] :
                   R2 \in { MulMicro(R1, R1) - 4050000 :
                            R1 \in {MulMicro(1200000, CbrtMicro(A))} } } : TRUE

\* calculate_nuclear_form_factor(q, A): compiled with the divisions of
\* Python, a division by zero raises ZeroDivisionError
calculate_nuclear_form_factor(q, A) ==
    CHOOSE r \in
      { IF radius.nan THEN [raised |-> FALSE, nan |-> TRUE, value |-> 0]
        ELSE IF q * radius.R = 0 THEN [raised |-> TRUE, nan |-> FALSE, value |-> 0]
        ELSE [raised |-> FALSE, nan |-> FALSE,
              value |-> MulMicro(ThreeJ1(MulMicro(q * 100000, radius.R)),
                                 ExpNegMicro(MulMicro(q * 90000, q * 90000) \div 2))] :
        radius \in {HelmRadius(A)} } : TRUE

\* momentum transfers (tenths of fm^-1) and mass numbers callers pass
MomentumTransfers == {0, 1, 5, 10, 20, 50, 100}
MassNumbers == {1, 4, 27, 125}

\* the values of calculate_nuclear_form_factor over the arguments passed
FormFactorValues ==
    { [q |-> q, A |-> A, result |-> calculate_nuclear_form_factor(q, A)] :
      q \in MomentumTransfers, A \in MassNumbers }

\* calculate_nuclear_form_factor(q, A)
FormFactor(q, A) ==
    /\ Idle
    /\ LET r == (CHOOSE v \in FormFactorValues : v.q = q /\ v.A = A).result
       IN  ret' = [op |-> "calculate_nuclear_form_factor", q |-> q, A |-> A,
                   raised |-> r.raised, nan |-> r.nan, value |-> r.value]
    /\ UNCHANGED <<rng, phys, physFrame>>

NextPhysics ==
    \/ \E v_0 \in VelocityScales, v_esc \in EscapeVelocities :
          CallVelocity(v_0, v_esc)
    \/ VelocityIteration
    \/ \E range \in EnergyRanges, lam \in BackgroundMeans :
          GenerateBackground(range, lam)
    \/ \E e \in TrueEnergies, res \in Resolutions, eff \in Efficiencies :
          ApplyDetectorResponse(e, res, eff)
    \/ \E q \in MomentumTransfers, A \in MassNumbers : FormFactor(q, A)

InitPhysics == Init /\ det = NewDetectorObject(DefaultConfig)

SpecPhysics == InitPhysics /\ [][NextPhysics]_vars

\* the loop of a call in progress keeps running
SpecPhysicsFair == SpecPhysics /\ WF_vars(VelocityIteration)

(***************************************************************************)
(* Runs executed by two threads of one process                             *)
(***************************************************************************)
\* Each thread constructs its own Detector and calls run_simulation, as
\* start_simulation does (app.py lines 77-78).  The threads interleave
\* between the np.random calls of the two generation loops; every draw comes
\* from the one generator of the process.
ConcurrentCounts == { <<1, 0>>, <<0, 1>> }

runFrame == <<det, ret, drawn, coll, simulation_state, simulation_history, phys>>

\* detector = Detector(config); detector.run_simulation(b, s) is entered;
\* start is the state of the generator at that time
BeginRun(r, config, counts) ==
    /\ runs[r].pc = "new"
    /\ runs' = [runs EXCEPT ![r] =
                  EnteredRun(config, counts[1], counts[2]) @@ [start |-> rng]]
    /\ UNCHANGED <<rng, runFrame>>

\* one np.random call of the loop of generate_background_events
BackgroundStep(r) ==
    /\ runs[r].pc = "background"
    /\ rng' = RngNext(rng)
    /\ runs' = [runs EXCEPT ![r] = BackgroundCall(runs[r], RngNext(rng))]
    /\ UNCHANGED runFrame

\* one np.random call of the loop of generate_dark_matter_events
DarkMatterStep(r) ==
    /\ runs[r].pc = "dark_matter"
    /\ rng' = RngNext(rng)
    /\ runs' = [runs EXCEPT ![r] = DarkMatterCall(runs[r], RngNext(rng))]
    /\ UNCHANGED runFrame

\* the rest of run_simulation: shuffle, process every particle, statistics
FinishRun(r) ==
    /\ runs[r].pc = "shuffle"
    /\ \E done \in {FinishedRun(runs[r], rng)} :
           /\ rng' = done.rng
           /\ runs' = [runs EXCEPT ![r].pc = "done", ![r].det = done.det]
    /\ UNCHANGED runFrame

NextConcurrent ==
    \/ \E r \in RunIds, c \in DetConfigs, n \in ConcurrentCounts : BeginRun(r, c, n)
    \/ \E r \in RunIds : BackgroundStep(r)
    \/ \E r \in RunIds : DarkMatterStep(r)
    \/ \E r \in RunIds : FinishRun(r)

SpecConcurrent == InitPhysics /\ [][NextConcurrent]_vars

(***************************************************************************)
(* Properties of the Detector                                              *)
(***************************************************************************)
RanSimulation == ret.op = "run_simulation"
StatsSet == DOMAIN det.simulation_stats # {}

\* C1: the recorded events are partitioned into signal and background
\* events: in every state len(events) = signal count + background count, and
\* the statistics a run returns satisfy
\* dark_matter_candidates + background_events = total_events.
C1_EventsPartition ==
    /\ Len(det.events) = DmDetections(det.events) + BgRejections(det.events)
    /\ (RanSimulation /\ ~ret.raised) =>
          /\ ret.value.total_events = Len(det.events)
          /\ ret.value.dark_matter_candidates + ret.value.background_events
                = ret.value.total_events

\* a run has recorded signal events and background events of both tags
C1_Witness ==
    /\ RanSimulation /\ ~ret.raised
    /\ ret.value.dark_matter_candidates > 0
    /\ \E i \in 1..Len(det.events) :
          det.events[i].particles[1].particle_type = COSMIC_RAY

\* C2: a run on a newly constructed detector with b background draws and s
\* signal draws reports background_events = b and
\* dark_matter_candidates <= s.
C2_BackgroundKeptSignalBounded ==
    (RanSimulation /\ ~ret.raised /\ ret.events_before = 0) =>
        /\ ret.value.background_events = ret.background_events
        /\ ret.value.dark_matter_candidates <= ret.dark_matter_events

\* a run with draws of both kinds in which a signal draw was rejected
C2_Witness ==
    /\ RanSimulation /\ ~ret.raised /\ ret.events_before = 0
    /\ ret.background_events > 0
    /\ ret.dark_matter_events > 0
    /\ ret.value.dark_matter_candidates < ret.dark_matter_events
    /\ ret.value.background_events = ret.background_events

\* C3: every dark-matter particle returned by generate_dark_matter_events,
\* and every signal event a run records, has energy >= the configured
\* energy threshold.
C3_SignalAtLeastThreshold ==
    /\ ret.op = "generate_dark_matter_events" =>
          \A i \in 1..Len(ret.value) :
              ret.value[i].energy >= 100 * det.config.energy_threshold_kev
    /\ RanSimulation =>
          \A i \in 1..Len(det.events) :
              IsDarkMatterEvent(det.events[i]) =>
                  det.events[i].total_energy
                      >= 100 * det.config.energy_threshold_kev

\* C8: run_simulation(0, 0) on a new detector does not raise and leaves the
\* event list empty; its statistics report zero events, zero candidates,
\* zero background and zero efficiency; the energy spectrum and the temporal
\* distribution computed afterwards are empty arrays.
C8_EmptyRun ==
    /\ (/\ RanSimulation
        /\ ret.background_events = 0 /\ ret.dark_matter_events = 0
        /\ ret.events_before = 0) =>
          /\ ~ret.raised
          /\ det.events = <<>>
          /\ ret.value.total_events = 0
          /\ ret.value.dark_matter_candidates = 0
          /\ ret.value.background_events = 0
          /\ ret.value.detector_efficiency.num = 0
          /\ ret.value.mean_energy.num = 0
    /\ (/\ ret.op \in {"get_energy_spectrum", "get_temporal_distribution"}
        /\ det.events = <<>>) =>
          /\ ~ret.raised
          /\ ret.value.bins = <<>>
          /\ ret.value.counts = <<>>

\* the temporal distribution asked for after an empty run
C8_Witness ==
    /\ ret.op = "get_temporal_distribution"
    /\ StatsSet
    /\ det.simulation_stats.total_events = 0
    /\ det.events = <<>>
    /\ ret.value.counts = <<>>


\* C16: the efficiency a run reports is (signal events of the run) /
\* (signal draws requested), 0 when none was requested, and lies in [0, 1].
\* A run is run_simulation on a Detector constructed for it.
C16_EfficiencyOfRun ==
    (RanSimulation /\ ~ret.raised /\ ret.events_before = 0) =>
        LET eff == ret.value.detector_efficiency
        IN  /\ ~eff.raised
            /\ eff.num >= 0 /\ eff.num <= eff.den
            /\ ret.dark_matter_events = 0 => eff.num = 0
            /\ ret.dark_matter_events > 0 =>
                  /\ eff.num = ret.n_dm
                  /\ eff.num = Cardinality({i \in 1..Len(det.events) :
                                   det.events[i].particles[1].particle_type
                                       = DARK_MATTER})
                  /\ eff.den = ret.dark_matter_events

\* a run with two signal draws of which exactly one was recorded
C16_Witness ==
    /\ RanSimulation /\ ~ret.raised /\ ret.events_before = 0
    /\ ret.dark_matter_events = 2
    /\ ret.value.detector_efficiency.num = 1
    /\ ret.value.detector_efficiency.den = 2

\* C17: the n-th event a detector processes has event_id n; the ids are
\* given in processing order, after the shuffle, so the event list is in
\* increasing id order whatever the timestamps.
C17_SequentialEventIds ==
    /\ det.event_counter = Len(det.events)
    /\ \A i \in 1..Len(det.events) : det.events[i].event_id = i

\* a run whose two events are stored against the order of their timestamps
C17_Witness ==
    /\ RanSimulation /\ ~ret.raised
    /\ Len(det.events) = 2
    /\ det.events[1].timestamp > det.events[2].timestamp
    /\ det.events[1].event_id = 1
    /\ det.events[2].event_id = 2


\* C21: generate_background_events(n) returns exactly n particles, each of
\* type BACKGROUND or COSMIC_RAY, each with an energy inside
\* [energy_threshold_kev, 1000 keV]: none below the configured threshold.
C21_BackgroundParticles ==
    ret.op = "generate_background_events" =>
        /\ Len(ret.value) = ret.num_events
        /\ \A i \in 1..Len(ret.value) :
              /\ ret.value[i].particle_type \in {BACKGROUND, COSMIC_RAY}
              /\ ret.value[i].energy >= 100 * det.config.energy_threshold_kev
              /\ ret.value[i].energy <= 100 * 100000

\* the timestamp lies in the exposure window of the configuration
InExposureWindow(timestamp, config) ==
    timestamp >= 0 /\ timestamp <= config.exposure_time_days * 86400

\* C22: every recorded event, signal or background, and every generated
\* particle has its timestamp inside [0, exposure_time_days * 86400].
C22_TimestampsInWindow ==
    /\ \A i \in 1..Len(det.events) :
          InExposureWindow(det.events[i].timestamp, det.config)
    /\ ret.op \in {"generate_background_events", "generate_dark_matter_events"} =>
          \A i \in 1..Len(ret.value) :
              InExposureWindow(ret.value[i].timestamp, det.config)


(***************************************************************************)
(* Properties of the EventCollection                                       *)
(***************************************************************************)
\* C9: get_statistics on a collection with no events does not raise and
\* reports total_events = 0, dark_matter_candidates = 0 and
\* background_events = 0.
C9_EmptyStatisticsDefined ==
    (ret.op = "coll.get_statistics" /\ coll = <<>>) =>
        /\ ~ret.raised
        /\ ret.value.total_events = 0
        /\ ret.value.dark_matter_candidates = 0
        /\ ret.value.background_events = 0

\* C10: on an empty collection the energy spectrum and the temporal
\* distribution have empty bin-edge and count arrays, for the Detector's
\* methods and for the EventCollection's methods.
C10_EmptyHistogramsEmpty ==
    /\ (/\ ret.op \in {"get_energy_spectrum", "get_temporal_distribution"}
        /\ det.events = <<>>) =>
          (~ret.raised /\ ret.value.bins = <<>> /\ ret.value.counts = <<>>)
    /\ (/\ ret.op \in {"coll.get_energy_spectrum",
                       "coll.get_temporal_distribution"}
        /\ coll = <<>>) =>
          (~ret.raised /\ ret.value.bins = <<>> /\ ret.value.counts = <<>>)


(***************************************************************************)
(* Properties of the API                                                   *)
(***************************************************************************)
\* config.DETECTOR_TYPES and the detector_types of GET /api/parameters
DetectorKinds == {"superfluid_helium", "liquid_xenon", "germanium", "scintillator"}

\* config.PARAMETER_RANGES, in the model's units
InDocumentedRanges(mass, temp, thr, rate, days) ==
    /\ mass >= 1 /\ mass <= 1000000
    /\ temp >= 5 /\ temp <= 300
    /\ thr >= 10 /\ thr <= 10000
    /\ rate >= 1 /\ rate <= 10000
    /\ days >= 1 /\ days <= 3650

ValidConfiguration(data) ==
    /\ data.wellformed /\ data.json /\ data.object /\ data.unread = "none"
    /\ data.finite
    /\ data.detector_type \in DetectorKinds
    /\ InDocumentedRanges(data.mass_kg, data.temperature_mk,
                          data.energy_threshold_kev, data.background_rate,
                          data.exposure_time_days)

\* C4: a run for an invalid configuration (unknown detector kind or a
\* physical parameter outside its range) fails before any sampling and
\* before anything is recorded: /api/simulate never completes for it.
C4_InvalidConfigurationFails ==
    (ret.op = "POST /api/simulate" /\ ~ValidConfiguration(ret.request)) =>
        ret.status # 200

\* C5: every configuration that reached a simulation run (every stored
\* result's detector_config) has mass, temperature, energy threshold,
\* background rate and exposure time inside the documented ranges.
C5_RunConfigurationsInRange ==
    \A i \in 1..Len(simulation_state.history) :
        LET c == simulation_state.history[i].detector_config
        IN  InDocumentedRanges(c.mass_kg, c.temperature_mk, c.threshold_kev,
                               c.background_rate, c.exposure_time_days)

\* C14: a run is determined by its seed: in a process started from one seed,
\* two completed runs of the same request (same configuration, same numbers
\* of draws) report the same statistics, energy spectrum and temporal
\* distribution, whatever ran before or in between.
C14_SameSeedSameResult ==
    \A i, j \in 1..Len(simulation_state.history) :
        LET a == simulation_state.history[i]
            b == simulation_state.history[j]
        IN  (/\ a.detector_config = b.detector_config
             /\ a.statistics.background_events = b.statistics.background_events) =>
                /\ a.statistics = b.statistics
                /\ a.energy_spectrum = b.energy_spectrum
                /\ a.temporal_distribution = b.temporal_distribution

(***************************************************************************)
(* Properties of the significance                                          *)
(***************************************************************************)
\* sig1 < sig2 for two significance values
SigLess(sig1, sig2) ==
    IF sig1.kind = "inf" THEN FALSE
    ELSE IF sig2.kind = "inf" THEN TRUE
    ELSE IF sig1.sign # sig2.sign THEN sig1.sign < sig2.sign
    ELSE IF sig1.sign > 0 THEN sig1.num * sig2.den < sig2.num * sig1.den
    ELSE IF sig1.sign < 0 THEN sig1.num * sig2.den > sig2.num * sig1.den
    ELSE FALSE

C11_SpectrumShape ==
    /\ (ret.op = "coll.get_energy_spectrum" /\ coll # <<>> /\ ret.bins >= 1) =>
          /\ ~ret.raised
          /\ Len(ret.value.counts) = ret.bins
          /\ Len(ret.value.bins) = ret.bins + 1
    /\ (ret.op = "get_energy_spectrum" /\ det.events # <<>>) =>
          /\ ~ret.raised
          /\ Len(ret.value.counts) = SPECTRUM_BINS
          /\ Len(ret.value.bins) = Len(ret.value.counts) + 1

(***************************************************************************)
(* Properties of physics.py                                                *)
(***************************************************************************)
\* C12: a velocity returned by maxwell_boltzmann_velocity(v_0, v_esc) has a
\* magnitude strictly below v_esc.
C12_VelocityBelowEscape ==
    ret.op = "maxwell_boltzmann_velocity" =>
        /\ ret.v_esc > 0
        /\ SumSquares(ret.value) < ret.v_esc * ret.v_esc

\* a velocity returned for v_esc = v_0 after at least one draw was turned down
C12_Witness ==
    /\ ret.op = "maxwell_boltzmann_velocity"
    /\ ret.v_esc = 220
    /\ ret.rejected

\* C13: the sampling loop of maxwell_boltzmann_velocity always comes to an
\* end (by returning, or by failing once a retry cap is exceeded): a call in
\* progress is eventually over.
C13_SamplingTerminates == (phys.pc = "sampling") ~> (phys.pc = "idle")

\* C18: calculate_nuclear_form_factor(q, A) does not raise, and its value
\* lies in [0, 1], for q in [0, 10] fm^-1 and A in [1, 250], q = 0 included.
C18_FormFactorInUnitInterval ==
    (/\ ret.op = "calculate_nuclear_form_factor"
     /\ ret.q >= 0 /\ ret.q <= 100
     /\ ret.A >= 1 /\ ret.A <= 250) =>
        /\ ~ret.raised
        /\ ~ret.nan
        /\ ret.value >= 0
        /\ ret.value <= 1000000

\* C19: generate_background returns only energies inside [min, max]; the
\* draws outside are dropped and not drawn again, so the result is the
\* in-range draws of the n_events drawn, at most n_events long.
C19_BackgroundInsideRange ==
    ret.op = "generate_background" =>
        /\ \A i \in 1..Len(ret.value) :
              ret.value[i] >= ret.lo /\ ret.value[i] <= ret.hi
        /\ Len(ret.energies) = ret.n_events
        /\ Len(ret.value) <= ret.n_events
        /\ Len(ret.value) =
              Cardinality({i \in 1..ret.n_events :
                  ret.energies[i] >= ret.lo /\ ret.energies[i] <= ret.hi})

\* a result shorter than the number of events drawn, and not empty
C19_Witness ==
    /\ ret.op = "generate_background"
    /\ Len(ret.value) > 0
    /\ Len(ret.value) < ret.n_events

\* C20: apply_detector_response returns None exactly when its uniform draw
\* is greater than the efficiency; otherwise it returns the smeared energy,
\* with 0 in place of a negative one, whatever its size (no threshold is
\* consulted).
C20_ResponseDetection ==
    ret.op = "apply_detector_response" =>
        /\ ret.detected <=> ~(ret.u > ret.efficiency)
        /\ ret.detected =>
              /\ ret.value >= 0
              /\ ret.value = IF ret.measured_energy < 0 THEN 0
                             ELSE ret.measured_energy

\* a detected energy that the smearing took below zero, returned as 0
C20_Witness ==
    /\ ret.op = "apply_detector_response"
    /\ ret.detected
    /\ ret.energy = 1000
    /\ ret.measured_energy < 0
    /\ ret.value = 0

(***************************************************************************)
(* Properties of concurrent runs                                           *)
(***************************************************************************)
\* what a run draws when nothing else draws from its generator
AloneFrom(r) ==
    LET bg == generate_background_events(runs[r].det.config,
                                         runs[r].background_events, runs[r].start)
        dm == generate_dark_matter_events(runs[r].det.config,
                                          runs[r].dark_matter_events, bg.rng)
    IN  [bg |-> bg.list, dm |-> dm.list]

IsPrefix(s, t) == Len(s) <= Len(t) /\ s = SubSeq(t, 1, Len(s))

\* C15: interleaved runs share no mutable state: each run appends to its own
\* lists, and the draws it sees are those of its own stream, the same as if
\* the other run took no step.
C15_RunsDoNotInterfere ==
    \A r \in RunIds :
        runs[r].pc \in {"background", "dark_matter", "shuffle"} =>
            /\ IsPrefix(runs[r].bg_particles, AloneFrom(r).bg)
            /\ runs[r].pc = "shuffle" => runs[r].dm_particles = AloneFrom(r).dm

(***************************************************************************)
(* Properties of the stored events                                         *)
(***************************************************************************)
AggregatorOps ==
    {"get_energy_spectrum", "get_temporal_distribution", "coll.get_statistics",
     "coll.get_energy_spectrum", "coll.get_temporal_distribution"}

\* C23: the stored events are append-only: add_event and process_event put
\* one event at the end and leave the events stored before, and their
\* positions, as they were; the statistics and histogram methods change
\* nothing.
C23_AppendOnly ==
    [][/\ IsPrefix(coll, coll')
       /\ IsPrefix(det.events, det.events')
       /\ ret'.op = "add_event" =>
             (Len(coll') = Len(coll) + 1 /\ det.events' = det.events)
       /\ ret'.op = "process_event" =>
             (Len(det.events') = Len(det.events) + 1 /\ coll' = coll)
       /\ ret'.op \in AggregatorOps =>
             (coll' = coll /\ det.events' = det.events)]_vars

\* two events stored in each, and the statistics of the collection taken
C23_Witness ==
    /\ Len(coll) = 2
    /\ Len(det.events) = 2
    /\ ret.op = "coll.get_statistics"

(***************************************************************************)
(* Properties of the stored simulation results (app.py)                    *)
(***************************************************************************)
\* C24: a result is appended once per completed run and never changes in
\* the history: a completed /api/simulate appends its response and leaves
\* the earlier entries as they were, /api/statistics, /api/results,
\* /api/export, /api/history and a refused /api/simulate leave the history
\* as it was, and only /api/clear removes entries.
C24_HistoryImmutable ==
    [][IF ret'.op = "POST /api/clear"
       THEN simulation_state'.history = <<>>
       ELSE IF ret'.op = "POST /api/simulate" /\ ret'.status = 200
       THEN simulation_state'.history =
                Append(simulation_state.history, ret'.body)
       ELSE simulation_state'.history = simulation_state.history]_vars

\* two results stored and the statistics of the later one computed
C24_Witness ==
    /\ Len(simulation_state.history) = 2
    /\ ret.op = "POST /api/statistics"
    /\ ret.status = 200

\* C27: the i-th entry of the history has simulation_id i, in every state
\* reached by concurrently handled /api/simulate and /api/clear requests.
C27_IdsArePositions ==
    \A i \in 1..Len(simulation_state.history) :
        simulation_state.history[i].simulation_id = i

\* C28: with requests handled one at a time, current_sim is None exactly
\* when the history is empty and is the last entry otherwise, and
\* /api/results, /api/export and /api/statistics answer 404 exactly when the
\* history is empty.
C28_CurrentIsLast ==
    /\ simulation_state.current_sim = None <=> simulation_state.history = <<>>
    /\ simulation_state.history # <<>> =>
          simulation_state.current_sim =
              simulation_state.history[Len(simulation_state.history)]
    /\ ret.op \in {"GET /api/results", "GET /api/export", "POST /api/statistics"} =>
          (ret.status = 404 <=> simulation_state.history = <<>>)

\* a body the limits of /api/simulate refuse: undecodable, null or empty, no
\* object, a value that is not a number, or a count or mass outside its
\* limits
OutsideLimits(data) ==
    \/ ~data.wellformed
    \/ ~data.json
    \/ ~data.object
    \/ data.unread # "none"
    \/ data.background_events \notin 10..50000
    \/ data.dark_matter_events \notin 1..1000
    \/ data.mass_kg \notin 1..1000000

\* C29: a refused /api/simulate (a body outside the limits, or an exception
\* during the run) is answered 400 or 500 and leaves simulation_state as it
\* was; a body outside the limits draws nothing from the generator, and no
\* body outside the limits is answered 200.
C29_RejectedLeavesState ==
    [][ret'.op = "POST /api/simulate" =>
          /\ OutsideLimits(ret'.request) =>
                (ret'.status # 200 /\ rng' = rng /\ drawn' = drawn)
          /\ ret'.status # 200 =>
                (ret'.status \in {400, 500}
                 /\ simulation_state' = simulation_state)]_vars

\* a run that raised, after a result was stored
C29_Witness ==
    /\ ret.op = "POST /api/simulate"
    /\ ret.status = 500
    /\ ~ret.request.finite
    /\ simulation_state.history # <<>>

(***************************************************************************)
(* Properties of process_event, repeated runs and the histogram counts     *)
(***************************************************************************)
\* C25: process_event records one event per call: the lists events,
\* particles and detector_response all have event_counter entries, and the
\* event a call returns is the one stored last and carries the particle's
\* energy as total_energy and the particle's timestamp.
C25_OneEventPerCall ==
    /\ Len(det.events) = det.event_counter
    /\ Len(det.particles) = det.event_counter
    /\ Len(det.detector_response) = det.event_counter
    /\ ret.op = "process_event" =>
          /\ ret.value = det.events[Len(det.events)]
          /\ ret.value.total_energy = ret.particle.energy
          /\ ret.value.timestamp = ret.particle.timestamp
          /\ det.particles[Len(det.particles)] = ret.particle

\* the second of two process_event calls has returned
C25_Witness ==
    /\ ret.op = "process_event"
    /\ det.event_counter = 2
    /\ det.particles[1] # det.particles[2]

\* C26: the statistics run_simulation returns describe the events of that
\* call only, also on a detector that has run before: total_events is the
\* number of background particles plus accepted signal particles of the
\* call, and detector_efficiency lies in [0, 1].
C26_StatisticsOfThisCall ==
    (RanSimulation /\ ~ret.raised) =>
        /\ ret.value.total_events = ret.n_bg + ret.n_dm
        /\ ret.value.detector_efficiency.num >= 0
        /\ ret.value.detector_efficiency.num <= ret.value.detector_efficiency.den

\* C30: every recorded event is counted in one bin of each histogram: for a
\* non-empty event list the counts of the energy spectrum and the counts of
\* the temporal distribution each sum to the number of events, for the
\* Detector and for the EventCollection.
C30_CountsSumToEvents ==
    /\ det.events # <<>> =>
          /\ SumSeq(get_energy_spectrum(det).counts) = Len(det.events)
          /\ SumSeq(get_temporal_distribution(det).counts) = Len(det.events)
    /\ coll # <<>> =>
          \A n \in BinChoices :
              /\ SumSeq(coll_get_energy_spectrum(coll, n).counts) = Len(coll)
              /\ SumSeq(coll_get_temporal_distribution(coll, n).counts) = Len(coll)

====
